---- MODULE Spec2Model ----
(***************************************************************************)
(* Astronomy Engine: the ascending-root search (RootSearch), the time      *)
(* model and the event iterations built on them.                           *)
(*                                                                         *)
(* Numbers are fixed point.  A time is an integer number of ticks, a       *)
(* sample f(t) an integer number of value units, and the interpolation     *)
(* parameter x is held as x * XScale.                                      *)
(***************************************************************************)
EXTENDS Integers, Sequences, FiniteSets, TLC

\* ------------------------------------------------------------------ bounds
\* Tabulated functions are sampled on the ticks 0..MaxT; tolerances are
\* 0..MaxTol ticks.
MaxT == 5
MaxTol == 2

\* ------------------------------------------------------- program constants
\* Mutant: the cap is tested one iteration late.
IterLimit_OneMore == 20 + 1

\* "If the search does not converge within 20 iterations ..."
IterLimit == 20
\* Fixed-point resolution of the interpolation parameter x in [-1, +1].
XScale == 32
\* Ticks per unit of t, and value units per unit of f, for Func = cos(t) - t.
CosScale == 1000
\* The window ta = 0.6, tb = 0.8 of the worked example.
CosTa == 600
CosTb == 800

\* -------------------------------------------------------------- arithmetic
Abs(n) == IF n < 0 THEN -n ELSE n

Max(a, b) == IF a >= b THEN a ELSE b

Min(a, b) == IF a <= b THEN a ELSE b

\* n / d rounded to the nearest integer (d # 0).
RoundDiv(n, d) ==
    IF d < 0 THEN (2 * (-n) + (-d)) \div (2 * (-d))
             ELSE (2 * n + d) \div (2 * d)

\* A power of two that is at least the square root of n (n < 2^31).
SqrtGuess(n) ==
    IF n < 256 THEN 16
    ELSE IF n < 4096 THEN 64
    ELSE IF n < 65536 THEN 256
    ELSE IF n < 1048576 THEN 1024
    ELSE IF n < 16777216 THEN 4096
    ELSE IF n < 268435456 THEN 16384
    ELSE 46341

RECURSIVE Newton(_, _)
Newton(n, x) ==
    LET y == (x + n \div x) \div 2
    IN  IF y >= x THEN x ELSE Newton(n, y)

\* math.sqrt on scaled integers: the floor of the square root (Newton's
\* iteration from above).
Isqrt(n) == IF n < 2 THEN n ELSE Newton(n, SqrtGuess(n))

\* ------------------------------------------------------------------- state
VARIABLES
    f,        \* the function searched: [kind, tab, sign]
    t1, t2,   \* the window Search was given
    tol,      \* dt_tolerance_seconds, in ticks
    ta, tb,   \* the current bracket
    iter,     \* iterations completed
    pc,       \* "run" | "found" | "notfound" | "fatal" | "idle"
    result,   \* the Time returned when pc = "found"
    now,      \* the Time the caller holds: [ut, tt]
    other,    \* a Time the caller kept earlier
    last,     \* the call that made `now`: [op, days, from, n]
    moon,     \* the Moon's motion: [new, len]
    mq,       \* the lunar quarter the caller holds: [status, quarter, time]
    mqPrev,   \* the lunar quarter it held before
    mqCount,  \* calls of NextMoonQuarter made
    sun,      \* the Sun's apparent motion: [mar, len]
    seasons,  \* the SeasonsInfo the caller holds
    seasonsPrev, \* the SeasonsInfo it held before
    rot,      \* the rotation matrix the caller holds, and how it was made
    vec,      \* the vector the caller holds
    orbit,    \* the Moon's distance over time: [peri, out, back]
    apsis,    \* the lunar apsis the caller holds: [status, kind, time]
    apsisPrev,   \* the lunar apsis it held before
    apsisCount,  \* calls of NextLunarApsis made
    memo,     \* records a caller kept of two calls with the same record
    rise,     \* a call of SearchRiseSet: the sky, the arguments and the result
    err,      \* an event search: what its root searches and what it reported
    called,   \* a search called for a body: the arguments and the result
    compared, \* ctest diff: the two files, the line reached and the worst difference
    prog,     \* ctest: the arguments, what the tests return, the tests run, the exit
    fit,      \* three samples of a function and the parabola through them
    astro,    \* ctest AstroCheck: the place in its loops and its error
    planet,   \* ctest TestPlanetLongitudes: the loop over the events of a planet
    script    \* the run script: the machine it runs on and the stage reached

searchVars == <<f, t1, t2, tol, ta, tb, iter, pc, result>>

timeVars == <<now, other, last>>

moonVars == <<moon, mq, mqPrev, mqCount>>

sunVars == <<sun, seasons, seasonsPrev>>

rotVars == <<rot, vec>>

\* The variables of the areas modelled after the time model and the searches
\* for quarters and seasons.
apsisVars == <<orbit, apsis, apsisPrev, apsisCount>>

pureVars == <<memo>>

\* The areas added after these, each with the state of one caller.
restVars == <<rise, err, called, compared, prog, fit>>

\* The test programs and the script modelled last.
lastVars == <<astro, planet, script>>

laterVars == <<rotVars, apsisVars, pureVars, restVars, lastVars>>

coreVars == <<searchVars, timeVars, moonVars, sunVars>>

\* What the calls on rotation matrices leave alone.
notRotVars == <<coreVars, apsisVars, pureVars, restVars, lastVars>>

\* What the searches for lunar apsides leave alone.
notApsisVars == <<coreVars, rotVars, pureVars, restVars, lastVars>>

notPureVars == <<coreVars, rotVars, apsisVars, restVars, lastVars>>

\* The areas before restVars.
firstVars == <<coreVars, rotVars, apsisVars, pureVars>>

notRiseVars == <<firstVars, err, called, compared, prog, fit, lastVars>>

notErrVars == <<firstVars, rise, called, compared, prog, fit, lastVars>>

notBodyVars == <<firstVars, rise, err, compared, prog, fit, lastVars>>

notDiffVars == <<firstVars, rise, err, called, prog, fit, lastVars>>

notMainVars == <<firstVars, rise, err, called, compared, fit, lastVars>>

notFitVars == <<firstVars, rise, err, called, compared, prog, lastVars>>

notAstroVars == <<firstVars, restVars, planet, script>>

notPlanetVars == <<firstVars, restVars, astro, script>>

notScriptVars == <<firstVars, restVars, astro, planet>>

vars == <<coreVars, laterVars>>

NoTime == -1

Ticks == 0..MaxT

\* -------------------------------------------------------------- time model
\* A Time is [ut, tt], both in ticks of one second since noon on
\* January 1, 2000.
DayTicks == 24 * 3600

\* Integer division as C does it: the quotient is truncated toward zero.
TruncDiv(n, d) == IF n < 0 THEN -((-n) \div d) ELSE n \div d

\* Whole days from January 1, 2000 to a proleptic Gregorian calendar date.
DayNumber(year, month, day) ==
    LET a == TruncDiv(month - 14, 12)
    IN  (day - 32075)
        + TruncDiv(1461 * (year + 4800 + a), 4)
        + TruncDiv(367 * (month - 2 - a * 12), 12)
        - TruncDiv(3 * TruncDiv(year + 4900 + a, 100), 4)
        - 2451545

\* ut: the time from the J2000 epoch implied by the calendar fields.
UniversalTime(year, month, day, hour, minute, second) ==
    DayNumber(year, month, day) * DayTicks - DayTicks \div 2
    + hour * 3600 + minute * 60 + second

\* The tabulated part of Delta-T: seconds on January 1 of 1990, 2000, 2010
\* and 2020.
DeltaTable ==
    << [day |-> DayNumber(1990, 1, 1), dt |-> 57],
       [day |-> DayNumber(2000, 1, 1), dt |-> 64],
       [day |-> DayNumber(2010, 1, 1), dt |-> 66],
       [day |-> DayNumber(2020, 1, 1), dt |-> 69] >>

\* Inside the table: linear between the two entries around day d.
DeltaTabulated(d) ==
    LET i == CHOOSE k \in 1..(Len(DeltaTable) - 1) :
                 DeltaTable[k].day <= d /\ d < DeltaTable[k + 1].day
        lo == DeltaTable[i]
        hi == DeltaTable[i + 1]
    IN  lo.dt + RoundDiv((hi.dt - lo.dt) * (d - lo.day), hi.day - lo.day)

\* Outside the table: a polynomial in the days e from the end of the table
\* that is passed, joined to the table's end value.
DeltaExtrapolated(endDt, slope, e) ==
    endDt + RoundDiv(slope * e, 3653) + RoundDiv((e \div 100) * (e \div 100), 1500)

\* Delta-T in seconds, a function of ut alone.
DeltaT(ut) ==
    LET d     == ut \div DayTicks
        first == DeltaTable[1]
        final == DeltaTable[Len(DeltaTable)]
    IN  IF d < first.day THEN DeltaExtrapolated(first.dt, -7, first.day - d)
        ELSE IF d >= final.day THEN DeltaExtrapolated(final.dt, 3, d - final.day)
        ELSE DeltaTabulated(d)

\* tt = ut + DeltaT(ut)/86400, in ticks of 1/86400 day.
TerrestrialTime(ut) == ut + DeltaT(ut)

\* The Time of a given ut.
TimeFromDays(ut) == [ut |-> ut, tt |-> TerrestrialTime(ut)]

MakeTime(year, month, day, hour, minute, second) ==
    TimeFromDays(UniversalTime(year, month, day, hour, minute, second))

\* Mutant: the days are added to the Terrestrial Time field.
AddDays_FromTT(t, days) == TimeFromDays(t.tt + days)

\* Mutant: both fields are shifted by the days.
AddDays_ShiftBoth(t, days) == [ut |-> t.ut + days, tt |-> t.tt + days]

\* AddDays: ut is adjusted exactly by days, tt is adjusted for the resulting
\* date.
AddDays(t, days) == TimeFromDays(t.ut + days)

\* The J2000 epoch.
Epoch == MakeTime(2000, 1, 1, 12, 0, 0)

\* --------------------------------------------------------------- the Moon
\* Event searches count time in ticks of one hour since the J2000 epoch and
\* the Moon's angles in quarters of a degree, fine enough for the phase to
\* differ from one tick to the next.
HourTicks == 3600

AngleScale == 4

QuarterTurn == 90 * AngleScale

\* Hours from the epoch to 00:00 on a calendar date.
HourTime(year, month, day) ==
    UniversalTime(year, month, day, 0, 0, 0) \div HourTicks

\* Hours a lunar quarter can last (6.6 to 8.2 days).
QuarterLens == {160, 177, 196}

\* A Moon: the time of one new moon and the lengths of the four quarters that
\* follow it, repeated from then on.
MoonModels ==
    {[new |-> n, len |-> l] : n \in {0, 333}, l \in [1..4 -> QuarterLens]}

MeanMoon == [new |-> 0, len |-> [k \in 1..4 |-> 177]]

\* The angle at time t of a body that is at 0 degrees at `origin` and covers
\* the four quarters of its circle in len[1..4] ticks, again and again: the
\* angle of the quarter begun, and the part of the next 90 degrees covered
\* since.  `scale` is the number of angle units in a degree.
CycleAngle(origin, len, scale, t) ==
    LET e1 == len[1]
        e2 == e1 + len[2]
        e3 == e2 + len[3]
        e4 == e3 + len[4]
        tc == (t - origin) % e4
        k  == IF tc < e1 THEN 0 ELSE IF tc < e2 THEN 1 ELSE IF tc < e3 THEN 2 ELSE 3
        s  == IF k = 0 THEN 0 ELSE IF k = 1 THEN e1 ELSE IF k = 2 THEN e2 ELSE e3
    IN  90 * scale * k + (90 * scale * (tc - s)) \div len[k + 1]

\* An angle difference brought into [-180, +180) degrees.
LongitudeOffset(diff, scale) ==
    ((diff + 180 * scale) % (360 * scale)) - 180 * scale

\* The Moon's phase as an angle from 0 to 360 degrees.
MoonPhase(m, t) == CycleAngle(m.new, m.len, AngleScale, t)

\* moon_offset: how far the phase is past the target.
MoonOffset(m, targetLon, t) ==
    LongitudeOffset(MoonPhase(m, t) - targetLon, AngleScale)

\* ---------------------------------------------------------------- the Sun
\* The Sun's angles are counted in hundredths of a degree.
SunScale == 100

\* Hours from one equinox or solstice to the next, March to March, after
\*   2019-03-20T21:58Z Equinox    2019-06-21T15:54Z Solstice
\*   2019-09-23T07:50Z Equinox    2019-12-22T04:19Z Solstice
\* in a year of 365.25 days; and the same with a longer spring.
SeasonLens == { <<2226, 2248, 2156, 2136>>, <<2232, 2242, 2156, 2136>> }

\* The March equinox of 2019, to the hour.
MarEquinox2019 == HourTime(2019, 3, 20) + 22

\* A Sun: the time of a March equinox, up to half a day from that of 2019, and
\* the lengths of the four seasons that follow it, repeated from then on.
SunModels ==
    {[mar |-> MarEquinox2019 + e, len |-> l] :
        e \in {-12, -5, 0, 5, 12}, l \in SeasonLens}

MeanSun == [mar |-> MarEquinox2019, len |-> <<2226, 2248, 2156, 2136>>]

\* The Sun's apparent ecliptic longitude at time t.
SunLongitude(s, t) == CycleAngle(s.mar, s.len, SunScale, t)

\* sun_offset: how far the Sun's longitude is past the target.
SunOffset(s, targetLon, t) ==
    LongitudeOffset(SunLongitude(s, t) - targetLon, SunScale)

\* ------------------------------------------------------ the Moon's distance
\* An orbit: the time of one perigee, the hours from perigee to apogee and
\* from apogee to perigee, repeated from then on.
ApsisLens == {300, 331, 360}

MoonOrbits ==
    {[peri |-> p, out |-> a, back |-> b] :
        p \in {0, 150}, a \in ApsisLens, b \in ApsisLens}

MeanOrbit == [peri |-> 0, out |-> 331, back |-> 331]

\* Distance units gained per tick per tick away from an apsis.
SlopeRate == 2

\* distance_slope: the rate of change of the Moon's distance, zero at each
\* apsis, positive from perigee to apogee and negative from apogee to perigee.
DistanceSlope(o, t) ==
    LET tc == (t - o.peri) % (o.out + o.back)
    IN  IF tc <= o.out
        THEN SlopeRate * Min(tc, o.out - tc)
        ELSE -SlopeRate * Min(tc - o.out, o.out + o.back - tc)

\* ------------------------------------------------------------- the planets
\* enum Body
Bodies ==
    {"Mercury", "Venus", "Earth", "Mars", "Jupiter", "Saturn", "Uranus", "Neptune",
     "Pluto", "Sun", "Moon"}

\* The days after which a body is back at the same place relative to the
\* Earth and the Sun.
SynodicPeriod(body) ==
    CASE body = "Mercury" -> 116
      [] body = "Venus"   -> 584
      [] body = "Mars"    -> 780
      [] body = "Jupiter" -> 399
      [] body = "Saturn"  -> 378
      [] body = "Uranus"  -> 370
      [] body = "Neptune" -> 367
      [] body = "Pluto"   -> 367
      [] OTHER            -> 365

\* The planets' angles are counted in thirds of a degree, time in days.
PlanetScale == 3

InnerPlanets == {"Mercury", "Venus"}

\* The relative longitude from the body to the Earth: it grows for a planet
\* that orbits faster than the Earth and shrinks for a slower one.
RelativeLongitude(body, t) ==
    LET q == SynodicPeriod(body) \div 4
        a == CycleAngle(0, <<q, q, q, SynodicPeriod(body) - 3 * q>>, PlanetScale, t)
    IN  IF body \in InnerPlanets THEN a ELSE (360 * PlanetScale - a) % (360 * PlanetScale)

\* How far the relative longitude is past the target, in the direction in
\* which it changes.
RelativeLongitudeOffset(body, targetRelLon, t) ==
    (IF body \in InnerPlanets THEN 1 ELSE -1)
        * LongitudeOffset(RelativeLongitude(body, t) - targetRelLon, PlanetScale)

\* The swing of a quantity of the body between its least and its greatest
\* value over a synodic period, the least at day `least` of each.
Swing(body, least) ==
    [peri |-> least, out |-> SynodicPeriod(body) \div 2,
     back |-> SynodicPeriod(body) - SynodicPeriod(body) \div 2]

\* ------------------------------------------------ the sky of an observer
\* Ticks of a quarter of an hour; the search steps by the hour.
RiseStep == 4

DayLen == 24 * RiseStep

\* The sky of an observer: the body culminates at tick noon of every day at
\* altitude peak and sinks by rate per tick away from it. Altitudes are odd, so
\* the body is never exactly on the horizon at a tick.
Skies ==
    {[noon |-> n, peak |-> p, rate |-> 2] : n \in {40, 50}, p \in {-3, 1, 5, 41, 99}}

MeanSky == [noon |-> 40, peak |-> 41, rate |-> 2]

\* The apparent altitude of the body above the horizon.
Altitude(sky, t) ==
    sky.peak - sky.rate * Abs(((t - sky.noon + DayLen \div 2) % DayLen) - DayLen \div 2)

\* ------------------------------------------------- the functions searched
ZeroTab == [t \in Ticks |-> 0]

\* Every table of samples over the ticks, and cos(t) - t and its negation.
Levels == {-1, 0, 1}

TabFunctions == {[kind |-> "tab", tab |-> g, sign |-> 1] : g \in [Ticks -> Levels]}

CosFunctions == {[kind |-> "cos", tab |-> ZeroTab, sign |-> s] : s \in {1, -1}}

\* math.cos on fixed point: the Taylor polynomial 1 - t^2/2 + t^4/24 - t^6/720.
Cos(t) ==
    LET sq  == (t * t) \div CosScale
        qu  == (sq * sq) \div CosScale
        sx  == (qu * sq) \div CosScale
    IN  CosScale - RoundDiv(sq, 2) + RoundDiv(qu, 24) - RoundDiv(sx, 720)

\* Mutant: the operands of the subtraction exchanged.
CosFunc_Swapped(t) == t - Cos(t)

\* def Func(t): return math.cos(t) - t
CosFunc(t) == Cos(t) - t

\* func.Eval(t).  Tables and angles are held in half units, so that
\* (fb + fa)/2 is exact; a table keeps its end value outside the ticks it
\* samples.
Func(fn, t) ==
    IF fn.kind = "cos" THEN fn.sign * CosFunc(t)
    ELSE IF fn.kind = "moon" THEN 2 * MoonOffset(fn.moon, fn.target, t)
    ELSE IF fn.kind = "sun" THEN 2 * SunOffset(fn.sun, fn.target, t)
    ELSE IF fn.kind = "apsis" THEN 2 * fn.direction * DistanceSlope(fn.orbit, t)
    ELSE IF fn.kind = "altitude" THEN 2 * fn.direction * Altitude(fn.sky, t)
    ELSE IF fn.kind = "rellon" THEN 2 * RelativeLongitudeOffset(fn.body, fn.target, t)
    ELSE 2 * fn.tab[Max(0, Min(MaxT, t))]

\* ------------------------------------------------ quadratic interpolation
\* Mutant: the sample in the middle is left out of Q.
Parabola_NoMidpoint(fa, fm, fb) ==
    [Q |-> (fb + fa) \div 2, R |-> (fb - fa) \div 2, S |-> fm]

\* Parabola.__init__: Q = (fb + fa)/2 - fm, R = (fb - fa)/2, S = fm.
Parabola(fa, fm, fb) ==
    [Q |-> (fb + fa) \div 2 - fm, R |-> (fb - fa) \div 2, S |-> fm]

\* Parabola.Eval: Q*x*x + R*x + S
Eval(p, x) == p.Q * x * x + p.R * x + p.S

None == [some |-> FALSE, x |-> 0]

Some(x) == [some |-> TRUE, x |-> x]

\* -1 <= x <= +1
InRange(x) == -XScale <= x /\ x <= XScale

\* Mutant: the product is added.
Discriminant_Plus(p) == p.R * p.R + 4 * p.Q * p.S

\* u = R*R - 4*Q*S
Discriminant(p) == p.R * p.R - 4 * p.Q * p.S

\* Mutant: a parabola tangent to the axis yields the point where it touches.
Solve_TangentPoint(p) ==
    IF p.Q = 0 THEN
        IF p.R = 0 THEN None
        ELSE LET x == RoundDiv(-p.S * XScale, p.R)
             IN  IF InRange(x) THEN Some(x) ELSE None
    ELSE
        LET u == Discriminant(p) IN
        IF u < 0 THEN None
        ELSE LET ru == Isqrt(u * XScale * XScale)
                 x1 == RoundDiv(-p.R * XScale + ru, 2 * p.Q)
                 x2 == RoundDiv(-p.R * XScale - ru, 2 * p.Q)
             IN  IF InRange(x1) THEN (IF InRange(x2) /\ x2 # x1 THEN None ELSE Some(x1))
                 ELSE IF InRange(x2) THEN Some(x2)
                 ELSE None

\* Mutant: when both roots are in range the first one is returned.
Solve_FirstInRange(p) ==
    IF p.Q = 0 THEN
        IF p.R = 0 THEN None
        ELSE LET x == RoundDiv(-p.S * XScale, p.R)
             IN  IF InRange(x) THEN Some(x) ELSE None
    ELSE
        LET u == Discriminant(p) IN
        IF u <= 0 THEN None
        ELSE LET ru == Isqrt(u * XScale * XScale)
                 x1 == RoundDiv(-p.R * XScale + ru, 2 * p.Q)
                 x2 == RoundDiv(-p.R * XScale - ru, 2 * p.Q)
             IN  IF InRange(x1) THEN Some(x1)
                 ELSE IF InRange(x2) THEN Some(x2)
                 ELSE None

\* Solve(p): the one root of p in [-1, +1], or None.
Solve(p) ==
    IF p.Q = 0 THEN
        IF p.R = 0 THEN None
        ELSE LET x == RoundDiv(-p.S * XScale, p.R)
             IN  IF InRange(x) THEN Some(x) ELSE None
    ELSE
        LET u == Discriminant(p) IN
        IF u <= 0 THEN None
        ELSE LET ru == Isqrt(u * XScale * XScale)
                 x1 == RoundDiv(-p.R * XScale + ru, 2 * p.Q)
                 x2 == RoundDiv(-p.R * XScale - ru, 2 * p.Q)
             IN  IF InRange(x1) THEN (IF InRange(x2) THEN None ELSE Some(x1))
                 ELSE IF InRange(x2) THEN Some(x2)
                 ELSE None

\* tm = (tb + ta)/2
Midpoint(a, b) == a + (b - a) \div 2

\* Mutant: x is scaled by the whole width of the bracket.
TimeOfX_WholeWidth(tm, b, x) == tm + RoundDiv(x * 2 * (b - tm), XScale)

\* t = tm + x*(tb - tm)
TimeOfX(tm, b, x) == tm + RoundDiv(x * (b - tm), XScale)

\* ------------------------------------------------------------- RootSearch
\* Mutant: a sign change in either direction is taken for a root.
Ascending_EitherWay(fl, fr) == (fl < 0 /\ fr >= 0) \/ (fl >= 0 /\ fr < 0)

\* An ascending root is bracketed: negative on the left, not on the right.
Ascending(fl, fr) == fl < 0 /\ fr >= 0

\* Mutant: the new bracket is not clipped to the previous one.
Shrink_Unclipped(a, b, t0) ==
    LET d == Max(1, (b - a) \div 8)
    IN  [ta |-> t0 - d, tb |-> t0 + d]

\* The bracket tightly surrounding t0, kept inside the previous bracket.
Shrink(a, b, t0) ==
    LET d == Max(1, (b - a) \div 8)
    IN  [ta |-> Max(a, t0 - d), tb |-> Min(b, t0 + d)]

\* Mutant: half the bracket width is compared with the tolerance.
Converged_HalfWidth(a, b, tolerance) == (b - a) \div 2 <= tolerance

\* |tb - ta| <= tolerance
Converged(a, b, tolerance) == b - a <= tolerance

\* One more iteration is allowed.
MayIterate(n) == n < IterLimit

\* What one iteration on the bracket [a, b] decides: the interpolated bracket
\* when an estimate exists and its bracket is smaller and holds an ascending
\* root; a stop when the parabola has two real roots and zero or both of them
\* in range (the search must not guess); otherwise the half of the bracket
\* whose end values show the ascending sign change, or a failure.
Iterate(fn, a, b) ==
    LET tm == Midpoint(a, b)
        fa == Func(fn, a)
        fm == Func(fn, tm)
        fb == Func(fn, b)
        p  == Parabola(fa, fm, fb)
        s  == Solve(p)
        t0 == TimeOfX(tm, b, s.x)
        c  == Shrink(a, b, t0)
        est == IF s.some THEN t0 ELSE NoTime
    IN  IF /\ s.some
           /\ c.tb - c.ta < b - a
           /\ Ascending(Func(fn, c.ta), Func(fn, c.tb))
        THEN [kind |-> "interpolate", ta |-> c.ta, tb |-> c.tb, est |-> t0]
        ELSE IF ~s.some /\ p.Q # 0 /\ Discriminant(p) > 0
        THEN [kind |-> "ambiguous", ta |-> a, tb |-> b, est |-> NoTime]
        ELSE IF Ascending(fa, fm)
        THEN [kind |-> "bisect", ta |-> a, tb |-> tm, est |-> est]
        ELSE IF Ascending(fm, fb)
        THEN [kind |-> "bisect", ta |-> tm, tb |-> b, est |-> est]
        ELSE [kind |-> "fail", ta |-> a, tb |-> b, est |-> NoTime]

\* The Time returned from the bracket of `it`: the estimate when it lies in
\* the bracket, else the middle.
ResultOf(it) ==
    IF it.ta <= it.est /\ it.est <= it.tb THEN it.est ELSE Midpoint(it.ta, it.tb)

\* Adopt the bracket of `it`; stop with the estimate when it is small enough.
Adopt(it) ==
    /\ ta' = it.ta
    /\ tb' = it.tb
    /\ iter' = iter + 1
    /\ IF Converged(it.ta, it.tb, tol)
       THEN /\ pc' = "found"
            /\ result' = ResultOf(it)
       ELSE /\ pc' = "run"
            /\ result' = result
    /\ UNCHANGED <<f, t1, t2, tol, timeVars, moonVars, sunVars, laterVars>>

Stop(outcome) ==
    /\ pc' = outcome
    /\ UNCHANGED <<f, t1, t2, tol, ta, tb, result, timeVars, moonVars, sunVars, laterVars>>

\* The whole search as the event searches call it: the iterations from the
\* bracket [a, b] on, n of them done.  (The iteration is bound as an element
\* of a singleton set, which evaluates it once.)
RECURSIVE SearchRun(_, _, _, _, _)
SearchRun(fn, a, b, tolerance, n) ==
    IF ~MayIterate(n) THEN [status |-> "fatal", time |-> NoTime]
    ELSE CHOOSE r \in
             { IF it.kind \in {"ambiguous", "fail"}
               THEN [status |-> "notfound", time |-> NoTime]
               ELSE IF Converged(it.ta, it.tb, tolerance)
               THEN [status |-> "found", time |-> ResultOf(it)]
               ELSE SearchRun(fn, it.ta, it.tb, tolerance, n + 1)
               : it \in {Iterate(fn, a, b)} } : TRUE

Search(fn, a, b, tolerance) == SearchRun(fn, a, b, tolerance, 0)

\* --------------------------------------------------------- lunar quarters
\* The tolerance the event searches pass to Search, in ticks.
EventTolerance == 1

\* The window of a quarter search: 10 days.
QuarterLimit == 10 * 24

\* The time in [startTime, startTime + limit] at which the Moon reaches the
\* phase targetLon.
SearchMoonPhase(m, targetLon, startTime, limit) ==
    Search([kind |-> "moon", moon |-> m, target |-> targetLon],
           startTime, startTime + limit, EventTolerance)

QuarterInfo(r, quarter) ==
    [status |-> r.status, quarter |-> quarter, time |-> r.time]

\* The first lunar quarter after startTime: the quarter after the one the
\* phase is in.
SearchMoonQuarter(m, startTime) ==
    LET quarter == (1 + MoonPhase(m, startTime) \div QuarterTurn) % 4
    IN  QuarterInfo(SearchMoonPhase(m, QuarterTurn * quarter, startTime, QuarterLimit),
                    quarter)

\* Mutant: the search starts from the quarter the caller found last, not from
\* the record passed in.
NextMoonQuarter_FromLast(m, q) ==
    LET quarter == (q.quarter + 1) % 4
    IN  QuarterInfo(SearchMoonPhase(m, QuarterTurn * quarter, mq.time + 1, QuarterLimit),
                    quarter)

\* Mutant: the target is not advanced.
NextMoonQuarter_SameTarget(m, q) ==
    QuarterInfo(SearchMoonPhase(m, QuarterTurn * q.quarter, q.time + 1, QuarterLimit),
                q.quarter)

\* The quarter after q: the next target, searched from just after q.
NextMoonQuarter(m, q) ==
    LET quarter == (q.quarter + 1) % 4
    IN  QuarterInfo(SearchMoonPhase(m, QuarterTurn * quarter, q.time + 1, QuarterLimit),
                    quarter)

NoQuarter == [status |-> "none", quarter |-> 0, time |-> NoTime]

\* No Moon search has been made.
MoonIdle ==
    /\ moon = MeanMoon
    /\ mq = NoQuarter
    /\ mqPrev = NoQuarter
    /\ mqCount = 0

\* ---------------------------------------------------------------- seasons
\* The time in [startTime, startTime + limit] at which the Sun reaches the
\* longitude targetLon (in degrees).
SearchSunLongitude(s, targetLon, startTime, limit) ==
    Search([kind |-> "sun", sun |-> s, target |-> targetLon * SunScale],
           startTime, startTime + limit, EventTolerance)

\* The window of a season search: 4 days.
SeasonLimit == 4 * 24

\* The change of season at longitude targetLon, looked for from 00:00 on
\* month/day of the year.
FindSeasonChange(s, targetLon, year, month, day) ==
    SearchSunLongitude(s, targetLon, HourTime(year, month, day), SeasonLimit)

\* Mutant: the status is that of the last search that did not succeed.
SeasonsInfo_LastFailure(year, mar, jun, sep, dec) ==
    [status |-> IF dec.status # "found" THEN dec.status
                ELSE IF sep.status # "found" THEN sep.status
                ELSE IF jun.status # "found" THEN jun.status
                ELSE mar.status,
     year |-> year,
     mar_equinox |-> mar.time, jun_solstice |-> jun.time,
     sep_equinox |-> sep.time, dec_solstice |-> dec.time]

\* The four times of a year; a search that did not converge is reported as
\* such, else one that found nothing.
SeasonsInfo(year, mar, jun, sep, dec) ==
    [status |-> IF \A r \in {mar, jun, sep, dec} : r.status = "found" THEN "found"
                ELSE IF \E r \in {mar, jun, sep, dec} : r.status = "fatal" THEN "fatal"
                ELSE "notfound",
     year |-> year,
     mar_equinox |-> mar.time, jun_solstice |-> jun.time,
     sep_equinox |-> sep.time, dec_solstice |-> dec.time]

\* Mutant: the four searches are made in the order June, March, December,
\* September and stored in the order found.
Seasons_OutOfOrder(s, year) ==
    SeasonsInfo(year,
                FindSeasonChange(s, 90, year, 6, 19),
                FindSeasonChange(s, 0, year, 3, 19),
                FindSeasonChange(s, 270, year, 12, 20),
                FindSeasonChange(s, 180, year, 9, 21))

\* Both equinoxes and both solstices of a calendar year: four searches of
\* the Sun's longitude, each in its own window of the year.
Seasons(s, year) ==
    SeasonsInfo(year,
                FindSeasonChange(s, 0, year, 3, 19),
                FindSeasonChange(s, 90, year, 6, 19),
                FindSeasonChange(s, 180, year, 9, 21),
                FindSeasonChange(s, 270, year, 12, 20))

NoSeasons ==
    [status |-> "none", year |-> 0,
     mar_equinox |-> NoTime, jun_solstice |-> NoTime,
     sep_equinox |-> NoTime, dec_solstice |-> NoTime]

\* No seasons have been asked for.
SunIdle ==
    /\ sun = MeanSun
    /\ seasons = NoSeasons
    /\ seasonsPrev = NoSeasons

\* --------------------------------------------------------- lunar apsides
\* The searches look for a change of sign in steps of 5 days, over two months.
ApsisStep == 5 * 24

ApsisSteps == 12

\* The direction in which the slope of the distance rises through zero: as it
\* is at a pericenter, negated at an apocenter.
ApsisDirection(kind) == IF kind = "Pericenter" THEN 1 ELSE -1

ApsisFunc(o, kind) == [kind |-> "apsis", orbit |-> o, direction |-> ApsisDirection(kind)]

\* The start of the first step from t on over which fn rises through zero,
\* looking n steps ahead; NoTime when there is none.
RECURSIVE FirstBracket(_, _, _)
FirstBracket(fn, t, n) ==
    IF n = 0 THEN NoTime
    ELSE IF Ascending(Func(fn, t), Func(fn, t + ApsisStep)) THEN t
    ELSE FirstBracket(fn, t + ApsisStep, n - 1)

ApsisInfo(r, kind) == [status |-> r.status, kind |-> kind, time |-> r.time]

\* The first apsis of the given kind from startTime on.
SearchApsisOfKind(o, kind, startTime) ==
    CHOOSE a \in
        { IF t = NoTime
          THEN ApsisInfo([status |-> "notfound", time |-> NoTime], kind)
          ELSE ApsisInfo(Search(ApsisFunc(o, kind), t, t + ApsisStep, EventTolerance), kind)
          : t \in {FirstBracket(ApsisFunc(o, kind), startTime, ApsisSteps)} } : TRUE

\* The Moon is getting farther from the Earth at time t.
MovingAway(o, t) ==
    \/ DistanceSlope(o, t) > 0
    \/ DistanceSlope(o, t) = 0 /\ DistanceSlope(o, t + 1) > 0

\* The perigee or the apogee, whichever comes first after startTime.
SearchLunarApsis(o, startTime) ==
    SearchApsisOfKind(o, IF MovingAway(o, startTime) THEN "Apocenter" ELSE "Pericenter",
                      startTime)

OtherKind(kind) == IF kind = "Pericenter" THEN "Apocenter" ELSE "Pericenter"

\* Mutant: the kind is not toggled.
NextLunarApsis_SameKind(o, a) == SearchApsisOfKind(o, a.kind, a.time + 1)

\* Given an apogee, the next perigee, and vice versa: the other kind,
\* searched from just after the event given.
NextLunarApsis(o, a) == SearchApsisOfKind(o, OtherKind(a.kind), a.time + 1)

NoApsis == [status |-> "none", kind |-> "Pericenter", time |-> NoTime]

\* No apsis search has been made.
ApsisIdle ==
    /\ orbit = MeanOrbit
    /\ apsis = NoApsis
    /\ apsisPrev = NoApsis
    /\ apsisCount = 0

\* ----------------------------------------------------------- rise and set
\* Direction.Rise and Direction.Set.
Directions == {1, -1}

AltitudeFunc(sky, direction) == [kind |-> "altitude", sky |-> sky, direction |-> direction]

\* What the search makes of the root search on one step: its result, or
\* that of the steps after it when it found nothing.
RiseStepResult(found, rest) == IF found.status = "notfound" THEN rest ELSE found

\* The search from t on in n steps of an hour: RootSearch on each step over
\* which the altitude changes sign in the direction asked for.
RECURSIVE RiseSetFrom(_, _, _)
RiseSetFrom(fn, t, n) ==
    IF n = 0 THEN [status |-> "notfound", time |-> NoTime]
    ELSE IF Ascending(Func(fn, t), Func(fn, t + RiseStep))
    THEN CHOOSE r \in
             { RiseStepResult(found, RiseSetFrom(fn, t + RiseStep, n - 1))
               : found \in {Search(fn, t, t + RiseStep, EventTolerance)} } : TRUE
    ELSE RiseSetFrom(fn, t + RiseStep, n - 1)

\* The next rise or set from startTime on, within limitHours hours.
SearchRiseSet(sky, direction, startTime, limitHours) ==
    RiseSetFrom(AltitudeFunc(sky, direction), startTime, limitHours)

NoRise ==
    [sky |-> MeanSky, direction |-> 1, startTime |-> 0, limitHours |-> 0,
     status |-> "none", time |-> NoTime]

\* SearchRiseSet has not been called.
RiseIdle == rise = NoRise

NoErr == [search |-> "none", inner |-> <<>>, outer |-> [status |-> "none"]]

\* No event search has been followed.
ErrIdle == err = NoErr

\* ------------------------------------------------- searches for a body
InvalidBody == [status |-> "invalid_body", time |-> NoTime]

\* The search from t on in n steps: RootSearch on the first step over which fn
\* rises through zero.
RECURSIVE StepSearch(_, _, _, _)
StepSearch(fn, t, step, n) ==
    IF n = 0 THEN [status |-> "notfound", time |-> NoTime]
    ELSE IF Ascending(Func(fn, t), Func(fn, t + step))
    THEN Search(fn, t, t + step, EventTolerance)
    ELSE StepSearch(fn, t + step, step, n - 1)

\* A synodic period is searched in eighths, and one more.
PeriodSteps == 8 + 1

\* The next time the relative longitude from the body to the Earth is
\* targetRelLon.
SearchRelativeLongitude(body, targetRelLon, startTime) ==
    IF body \in {"Earth", "Sun", "Moon"} THEN InvalidBody
    ELSE StepSearch([kind |-> "rellon", body |-> body, target |-> targetRelLon],
                    startTime, SynodicPeriod(body) \div 8, PeriodSteps)

\* The next greatest value of the swing: where its rate of change falls
\* through zero.
SearchGreatest(body, least, startTime) ==
    StepSearch([kind |-> "apsis", orbit |-> Swing(body, least), direction |-> -1],
               startTime, SynodicPeriod(body) \div 8, PeriodSteps)

\* Mutant: the body is not checked.
SearchMaxElongation_AnyBody(body, startTime) == SearchGreatest(body, 0, startTime)

\* The next time Mercury or Venus is at its greatest angle from the Sun.
SearchMaxElongation(body, startTime) ==
    IF body \notin {"Mercury", "Venus"} THEN InvalidBody
    ELSE SearchGreatest(body, 0, startTime)

\* The day of a synodic period on which a body is faintest.
FaintestDay == 36

\* The next time Venus is brightest.
SearchPeakMagnitude(body, startTime) ==
    IF body # "Venus" THEN InvalidBody
    ELSE SearchGreatest(body, FaintestDay, startTime)

NoCall ==
    [search |-> "none", body |-> "Earth", target |-> 0, startTime |-> 0,
     status |-> "none", time |-> NoTime]

Call(search, body, target, startTime, r) ==
    [search |-> search, body |-> body, target |-> target, startTime |-> startTime,
     status |-> r.status, time |-> r.time]

\* No search for a body has been called.
BodyIdle == called = NoCall

\* ------------------------------------------------------------- ctest diff
\* A line of a check file: the record type, the body name ("" when the line
\* has none) and the numbers after it, in units of 0.9e-12.
Record(type, body, data) == [type |-> type, body |-> body, data |-> data]

\* maxdiff > 1.8e-12
DiffTolerance == 2

\* The numbers the sscanf format of a record type reads: "o %lf %lf %lf",
\* "v %9[A-Za-z] %lf %lf %lf" and "s %9[A-Za-z] %lf %lf %lf %lf %lf %lf %lf".
FormatNumbers(type) == IF type = "o" THEN 3 ELSE IF type = "v" THEN 3 ELSE 7

\* What sscanf returns for the line: the items read, and none after a body
\* name that is missing.
Scanned(line) ==
    IF line.type = "o" THEN Min(Len(line.data), FormatNumbers("o"))
    ELSE IF line.body = "" THEN 0
    ELSE 1 + Min(Len(line.data), FormatNumbers(line.type))

\* nrequired
Required(type) == IF type = "o" THEN 3 ELSE IF type = "v" THEN 4 ELSE 8

\* cbody: the body name read; the observer record has none.
BodyRead(line) == IF line.type = "o" THEN "" ELSE line.body

\* The greatest of maxdiff and the differences of the first n numbers.
RECURSIVE Worst(_, _, _, _)
Worst(cdata, jdata, n, maxdiff) ==
    IF n = 0 THEN maxdiff
    ELSE Worst(cdata, jdata, n - 1, Max(maxdiff, Abs(cdata[n] - jdata[n])))

\* DiffLine: error 1 for lines that do not pair; else error 0 and maxdiff and
\* worst_lnum brought up to date.
DiffLine(lnum, cline, jline, maxdiff, worst_lnum) ==
    LET failed == [error |-> 1, maxdiff |-> maxdiff, worst_lnum |-> worst_lnum]
        nc == Scanned(cline)
        nj == Scanned(jline)
        nrequired == Required(cline.type)
        numbers == IF BodyRead(cline) # "" THEN nrequired - 1 ELSE nrequired
    IN  IF cline.type # jline.type THEN failed
        ELSE IF cline.type \notin {"o", "v", "s"} THEN failed
        ELSE IF nc # nj THEN failed
        ELSE IF nc # nrequired THEN failed
        ELSE IF BodyRead(cline) # BodyRead(jline) THEN failed
        ELSE CHOOSE r \in
                 { [error |-> 0, maxdiff |-> w,
                    worst_lnum |-> IF w > maxdiff THEN lnum ELSE worst_lnum]
                   : w \in {Worst(cline.data, jline.data, numbers, maxdiff)} } : TRUE

Diffing(cfile, jfile) ==
    [cfile |-> cfile, jfile |-> jfile, lnum |-> 0, maxdiff |-> 0, worst_lnum |-> 0,
     pc |-> "loop", error |-> 1]

\* ctest diff has not been run.
DiffIdle == compared = [Diffing(<<>>, <<>>) EXCEPT !.pc = "none"]

\* ------------------------------------------------------------ ctest main
\* The tests main can run.
Tests ==
    {"Test_AstroTime", "AstroCheck", "ElongationTest", "SeasonsTest", "MoonPhase",
     "RiseSet", "Diff"}

\* Mutant: a test that failed does not stop main.
Failed_Never(error) == FALSE

\* CHECK(x): if (0 != (error = (x))) goto fail;
Failed(error) == error # 0

\* The test main runs for argv[1..], the program name left out; "" for none.
\* Without an argument it is Test_AstroTime, and AstroCheck after it.
TestFor(argv) ==
    IF Len(argv) = 0 THEN "Test_AstroTime"
    ELSE IF Len(argv) = 1 /\ argv[1] = "elongation" THEN "ElongationTest"
    ELSE IF Len(argv) = 2 /\ argv[1] = "seasons" THEN "SeasonsTest"
    ELSE IF Len(argv) = 2 /\ argv[1] = "moonphase" THEN "MoonPhase"
    ELSE IF Len(argv) = 2 /\ argv[1] = "riseset" THEN "RiseSet"
    ELSE IF Len(argv) = 3 /\ argv[1] = "diff" THEN "Diff"
    ELSE ""

Started(argv, returns) ==
    [argv |-> argv, returns |-> returns, ran |-> <<>>, pc |-> "start", error |-> 1]

\* ctest has not been started.
MainIdle == prog = [Started(<<>>, [t \in Tests |-> 0]) EXCEPT !.pc = "none"]

\* ------------------------------------------------------- fitting a parabola
Fitting(fa, fm, fb) ==
    [fa |-> fa, fm |-> fm, fb |-> fb, p |-> [Q |-> 0, R |-> 0, S |-> 0],
     x |-> None, pc |-> "sampled"]

\* No parabola has been asked for.
FitIdle == fit = [Fitting(0, 0, 0) EXCEPT !.pc = "none"]

\* ------------------------------------------------------ ctest AstroCheck
\* bodylist
BodyList ==
    <<"Sun", "Mercury", "Venus", "Earth", "Mars",
      "Jupiter", "Saturn", "Uranus", "Neptune", "Pluto">>

\* Mutant: a vector or equatorial result is taken for good whatever its status.
CheckStatus_Ignored(status) == 0

\* CheckVector, CheckEquator: 1 for a status other than ASTRO_SUCCESS, else 0.
CheckStatus(status) == IF status # "success" THEN 1 ELSE 0

\* AstroCheck as it starts: int error = 1, no call made.  `opens` tells
\* whether the output file can be opened, `failed` whether a call has
\* reported a status other than success.
Checking(opens) ==
    [opens |-> opens, pc |-> "open", error |-> 1, time |-> 0, b |-> 1,
     calls |-> 0, failed |-> FALSE]

AstroIdle == astro = [Checking(FALSE) EXCEPT !.pc = "none"]

\* ------------------------------------------- ctest TestPlanetLongitudes
\* min_diff = 1.0e+99, max_diff = 1.0e+99: a number above every interval.
HugeDiff == 1000000

\* TestPlanetLongitudes as it starts: int error = 1; rlon = 0.0; count = 0.
\* `start` is the time of 1 January 1700 and `stop` that of 1 January 2200,
\* `opens` tells whether the output file can be opened; `found` is the time
\* of search_result, `from` and `target` the time and the longitude it was
\* searched with.
Longitudes(body, opens, start, stop) ==
    [body |-> body, opens |-> opens, pc |-> "name", error |-> 1,
     rlon |-> 0, time |-> start, stop |-> stop, count |-> 0,
     min_diff |-> HugeDiff, max_diff |-> HugeDiff,
     found |-> NoTime, from |-> NoTime, target |-> 0]

\* TestPlanetLongitudes has not been called.
PlanetIdle == planet = [Longitudes("Earth", FALSE, 0, 0) EXCEPT !.pc = "none"]

\* ----------------------------------------------------- the run script
\* The two data files: the ephemeris and the star database.
DataFiles == <<"ephemeris", "stars">>

\* The commands after the data files whose failure ends the script, in the
\* order of the script; "generate planets" runs only when a planet model file
\* is missing.
Stages ==
    <<"make_constellation_data", "cd ..", "update_copyrights", "cd generate",
      "build", "mkdir", "generate planets", "generate apsis",
      "cd eclipse", "norm.py", "cd .. from eclipse", "makedoc",
      "unit_test_csharp", "unit_test_js", "unit_test_c", "unit_test_python",
      "ctest diff csharp", "ctest diff js", "ctest diff py",
      "cd demo/c", "test c", "cd nodejs", "test nodejs",
      "cd python", "test python", "cd csharp", "test csharp", "cd generate from demo">>

\* ./makedoc || exit $?  and the unit tests: the script ends with the status
\* of the command; every other stage ends it through Fail, with exit 1.
ExitsWithStatus ==
    {"makedoc", "unit_test_csharp", "unit_test_js", "unit_test_c", "unit_test_python"}

NoExit == -1

\* The decimal digits of n, as the shell expands ${attempt}.
RECURSIVE Digits(_)
Digits(n) == IF n < 10 THEN <<n>> ELSE Append(Digits(n \div 10), n % 10)

\* Mutant: the operands of the comparison exchanged.
StringGreater_Reversed(a, b) ==
    LET differ == {i \in 1..Min(Len(a), Len(b)) : a[i] # b[i]}
    IN  IF differ = {} THEN Len(b) > Len(a)
        ELSE LET i == CHOOSE j \in differ : \A k \in differ : j <= k
             IN  b[i] > a[i]

\* [[ a > b ]]: inside [[ ]] the operator > compares strings in dictionary
\* order, not numbers.
StringGreater(a, b) ==
    LET differ == {i \in 1..Min(Len(a), Len(b)) : a[i] # b[i]}
    IN  IF differ = {} THEN Len(a) > Len(b)
        ELSE LET i == CHOOSE j \in differ : \A k \in differ : j <= k
             IN  a[i] > b[i]

\* Mutant: only sha256sum is looked for.
ChecksumTool_ShaOnly(has) == IF has.sha256sum THEN "sha256" ELSE "none"

\* if IsInstalled sha256sum ... elif IsInstalled md5sum ... else (a warning)
ChecksumTool(has) ==
    IF has.sha256sum THEN "sha256" ELSE IF has.md5sum THEN "md5" ELSE "none"

\* Mutant: the command after || is never run.
Fails_Never(status) == FALSE

\* command || ...: what follows || runs when the command returns non-zero.
Fails(status) == status # 0

\* The script as it starts on a machine: its argument, the programs
\* installed, the data files and planet models present.  `had` keeps the
\* files present at the start; `wgets`, `curls` and `slept` count the
\* downloads tried and the seconds slept for each file, `got` tells the
\* download succeeded, `checked` how the file was validated, `ran` lists the
\* stages run, `status` is what the last of them returned, `failed` the
\* stage that failed, `passed` that pass.txt was printed.
Running(arg, has, present, models) ==
    [arg |-> arg, has |-> has, had |-> present, present |-> present, models |-> models,
     pc |-> "args", file |-> 1, attempt |-> 0,
     wgets |-> <<0, 0>>, curls |-> <<0, 0>>, slept |-> <<0, 0>>, got |-> <<FALSE, FALSE>>,
     checked |-> <<"none", "none">>,
     stage |-> 0, ran |-> <<>>, status |-> 0, failed |-> "none", passed |-> FALSE, exit |-> NoExit]

\* The script has not been started.
ScriptIdle ==
    script = [Running("", [wget |-> FALSE, curl |-> FALSE, sha256sum |-> FALSE, md5sum |-> FALSE],
                      <<FALSE, FALSE>>, FALSE) EXCEPT !.pc = "none"]

\* ------------------------------------------------------ rotation matrices
\* A RotationMatrix is a tuple of three rows; its entries here are integers,
\* and the rotations are built from quarter turns about the axes, which keeps
\* every matrix exactly orthonormal.
Dot(a, b) == a[1] * b[1] + a[2] * b[2] + a[3] * b[3]

Column(m, j) == <<m[1][j], m[2][j], m[3][j]>>

\* The matrix product a * b.  (The operands are bound as elements of
\* singleton sets, which evaluates each of them once.)
MatMul(a, b) ==
    CHOOSE m \in
        { << <<Dot(x[1], Column(y, 1)), Dot(x[1], Column(y, 2)), Dot(x[1], Column(y, 3))>>,
             <<Dot(x[2], Column(y, 1)), Dot(x[2], Column(y, 2)), Dot(x[2], Column(y, 3))>>,
             <<Dot(x[3], Column(y, 1)), Dot(x[3], Column(y, 2)), Dot(x[3], Column(y, 3))>> >>
          : x \in {a}, y \in {b} } : TRUE

IdentityMatrix == <<<<1, 0, 0>>, <<0, 1, 0>>, <<0, 0, 1>>>>

\* Mutant: the operands are multiplied the other way round.
CombineRotation_Reversed(a, b) == MatMul(a, b)

\* The rotation equivalent to rotating by a first and by b second.
CombineRotation(a, b) == MatMul(b, a)

\* Mutant: the matrix is returned as it came.
InverseRotation_Untransposed(r) ==
    CHOOSE m \in {<<x[1], x[2], x[3]>> : x \in {r}} : TRUE

\* The matrix that reverses r: its transpose.
InverseRotation(r) ==
    CHOOSE m \in {<<Column(x, 1), Column(x, 2), Column(x, 3)>> : x \in {r}} : TRUE

\* The vector v in the orientation r leads to.
RotateVector(r, v) ==
    CHOOSE w \in {<<Dot(x[1], y), Dot(x[2], y), Dot(x[3], y)>> : x \in {r}, y \in {v}} : TRUE

\* Quarter turns about the x, y and z axes.
TurnX == <<<<1, 0, 0>>, <<0, 0, -1>>, <<0, 1, 0>>>>

TurnY == <<<<0, 0, 1>>, <<0, 1, 0>>, <<-1, 0, 0>>>>

TurnZ == <<<<0, -1, 0>>, <<1, 0, 0>>, <<0, 0, 1>>>>

\* n quarter turns.
RECURSIVE Turns(_, _)
Turns(r, n) == IF n % 4 = 0 THEN IdentityMatrix ELSE MatMul(r, Turns(r, (n % 4) - 1))

\* The Earth-orientation model, a function of the time alone.
Precession(time) == Turns(TurnZ, time)

Nutation(time) == Turns(TurnX, time \div 2)

\* An Observer, by the quarter turns of its longitude and latitude.
Observers == {[lon |-> 0, lat |-> 1], [lon |-> 1, lat |-> 3]}

\* The turn of the Earth at a time, seen from an observer.
Spin(time, observer) == Turns(TurnZ, 3 * time + observer.lon)

Rotation_EQJ_ECL == TurnX

Rotation_ECL_EQJ == InverseRotation(Rotation_EQJ_ECL)

Rotation_EQJ_EQD(time) == CombineRotation(Precession(time), Nutation(time))

Rotation_EQD_EQJ(time) ==
    CombineRotation(InverseRotation(Nutation(time)), InverseRotation(Precession(time)))

Rotation_EQD_HOR(time, observer) ==
    CombineRotation(Spin(time, observer), Turns(TurnY, observer.lat))

Rotation_HOR_EQD(time, observer) == InverseRotation(Rotation_EQD_HOR(time, observer))

Rotation_EQJ_HOR(time, observer) ==
    CombineRotation(Rotation_EQJ_EQD(time), Rotation_EQD_HOR(time, observer))

Rotation_HOR_EQJ(time, observer) ==
    CombineRotation(Rotation_HOR_EQD(time, observer), Rotation_EQD_EQJ(time))

Rotation_ECL_EQD(time) == CombineRotation(Rotation_ECL_EQJ, Rotation_EQJ_EQD(time))

Rotation_EQD_ECL(time) == CombineRotation(Rotation_EQD_EQJ(time), Rotation_EQJ_ECL)

Rotation_ECL_HOR(time, observer) ==
    CombineRotation(Rotation_ECL_EQD(time), Rotation_EQD_HOR(time, observer))

Rotation_HOR_ECL(time, observer) ==
    CombineRotation(Rotation_HOR_EQD(time, observer), Rotation_EQD_ECL(time))

Frames == {"EQJ", "EQD", "ECL", "HOR"}

\* The rotation from frame a to frame b (a # b) at a time, for an observer.
Rotation(a, b, time, observer) ==
    CASE a = "EQJ" /\ b = "ECL" -> Rotation_EQJ_ECL
      [] a = "ECL" /\ b = "EQJ" -> Rotation_ECL_EQJ
      [] a = "EQJ" /\ b = "EQD" -> Rotation_EQJ_EQD(time)
      [] a = "EQD" /\ b = "EQJ" -> Rotation_EQD_EQJ(time)
      [] a = "EQD" /\ b = "HOR" -> Rotation_EQD_HOR(time, observer)
      [] a = "HOR" /\ b = "EQD" -> Rotation_HOR_EQD(time, observer)
      [] a = "EQJ" /\ b = "HOR" -> Rotation_EQJ_HOR(time, observer)
      [] a = "HOR" /\ b = "EQJ" -> Rotation_HOR_EQJ(time, observer)
      [] a = "ECL" /\ b = "EQD" -> Rotation_ECL_EQD(time)
      [] a = "EQD" /\ b = "ECL" -> Rotation_EQD_ECL(time)
      [] a = "ECL" /\ b = "HOR" -> Rotation_ECL_HOR(time, observer)
      [] a = "HOR" /\ b = "ECL" -> Rotation_HOR_ECL(time, observer)

\* What the caller knows of the matrix it holds: the call that made it and
\* that call's arguments (a, b: matrices; from, to, time, observer: of a frame
\* rotation).
NoFrame == [from |-> "", to |-> "", time |-> 0, observer |-> [lon |-> 0, lat |-> 0]]

Held(op, m, a, b, frame) == [op |-> op, m |-> m, a |-> a, b |-> b, frame |-> frame]

\* The caller holds the identity and a vector.
RotIdle ==
    /\ rot = Held("none", IdentityMatrix, IdentityMatrix, IdentityMatrix, NoFrame)
    /\ vec = <<1, 2, 3>>

\* The areas outside the one a specification is about are at rest.
NoMemo ==
    [quarterIn |-> NoQuarter, quarterOut |-> NoQuarter, quarterAgain |-> NoQuarter,
     apsisIn |-> NoApsis, apsisOut |-> NoApsis, apsisAgain |-> NoApsis]

\* No call has been kept.
MemoIdle == memo = NoMemo

\* The remaining areas are at rest.
RestIdle == RiseIdle /\ ErrIdle /\ BodyIdle /\ DiffIdle /\ MainIdle /\ FitIdle

LastIdle == AstroIdle /\ PlanetIdle /\ ScriptIdle

LaterIdle == RotIdle /\ ApsisIdle /\ MemoIdle /\ RestIdle /\ LastIdle

\* No search is running.
SearchIdle ==
    /\ f = [kind |-> "tab", tab |-> ZeroTab, sign |-> 1]
    /\ t1 = 0 /\ t2 = 0 /\ tol = 0
    /\ ta = 0 /\ tb = 0
    /\ iter = 0
    /\ pc = "idle"
    /\ result = NoTime

\* The caller holds the epoch and has made no call.
TimeIdle ==
    /\ now = Epoch
    /\ other = Epoch
    /\ last = [op |-> "init", days |-> 0, from |-> Epoch, n |-> 0]

\* One iteration of the search loop, by what it decides.
SearchInterpolate ==
    /\ pc = "run" /\ MayIterate(iter)
    /\ LET it == Iterate(f, ta, tb)
       IN  it.kind = "interpolate" /\ Adopt(it)

SearchBisect ==
    /\ pc = "run" /\ MayIterate(iter)
    /\ LET it == Iterate(f, ta, tb)
       IN  it.kind = "bisect" /\ Adopt(it)

SearchAmbiguous ==
    /\ pc = "run" /\ MayIterate(iter)
    /\ Iterate(f, ta, tb).kind = "ambiguous"
    /\ iter' = iter + 1
    /\ Stop("notfound")

SearchFail ==
    /\ pc = "run" /\ MayIterate(iter)
    /\ Iterate(f, ta, tb).kind = "fail"
    /\ iter' = iter + 1
    /\ Stop("notfound")

SearchFatal ==
    /\ pc = "run" /\ ~MayIterate(iter)
    /\ iter' = iter
    /\ Stop("fatal")

Init ==
    /\ \/ /\ f \in TabFunctions
          /\ t1 \in Ticks /\ t2 \in Ticks /\ t1 < t2
       \/ /\ f \in CosFunctions
          /\ t1 = CosTa /\ t2 = CosTb
    /\ tol \in 0..MaxTol
    /\ ta = t1 /\ tb = t2
    /\ iter = 0
    /\ pc = "run"
    /\ result = NoTime
    /\ TimeIdle
    /\ MoonIdle
    /\ SunIdle
    /\ LaterIdle

Next ==
    \/ SearchInterpolate
    \/ SearchBisect
    \/ SearchAmbiguous
    \/ SearchFail
    \/ SearchFatal

Spec == Init /\ [][Next]_vars

\* ------------------------------------------- searches of curved functions
\* Functions sampled with values from -MaxLevel to MaxLevel on the ticks of
\* the window [0, CurveEnd], so that the parabola of the window may miss the
\* axis altogether, touch it, or cross it twice.
MaxLevel == 2

CurveEnd == 4

CurveFunctions ==
    {[kind |-> "tab", tab |-> [t \in Ticks |-> g[Min(t, CurveEnd)]], sign |-> 1] :
        g \in [0..CurveEnd -> (-MaxLevel)..MaxLevel]}

CurveInit ==
    /\ f \in CurveFunctions
    /\ t1 = 0 /\ t2 = CurveEnd
    /\ tol \in 0..1
    /\ ta = t1 /\ tb = t2
    /\ iter = 0
    /\ pc = "run"
    /\ result = NoTime
    /\ TimeIdle
    /\ MoonIdle
    /\ SunIdle
    /\ LaterIdle

CurveSpec == CurveInit /\ [][Next]_vars

\* ------------------------------------------------------- calls on the clock
\* Calls a caller makes in one run.
MaxOps == 3

\* Calendar fields passed to MakeTime.
MakeArgs ==
    { <<2018, 12, 2, 18, 30, 12>>,
      <<2000, 1, 1, 12, 0, 0>>,
      <<1990, 1, 1, 12, 0, 0>>,
      <<2000, 2, 29, 0, 0, 0>>,
      <<2024, 3, 1, 0, 0, 0>>,
      <<1980, 12, 31, 23, 59, 59>> }

\* Days passed to AddDays, in ticks: 10.0 + PI/100.0 days among them.
DaySteps ==
    { 0, 1, -1, DayTicks \div 2, DayTicks, -DayTicks, 866714,
      365 * DayTicks, -365 * DayTicks, 3652 * DayTicks, -3652 * DayTicks }

\* The dates the model's arithmetic holds.
UtLimit == 20000 * DayTicks

\* time = Astronomy_MakeTime(year, month, day, hour, minute, second)
TimeMake ==
    \E a \in MakeArgs :
        /\ last.n < MaxOps
        /\ now' = MakeTime(a[1], a[2], a[3], a[4], a[5], a[6])
        /\ last' = [op |-> "make", days |-> 0, from |-> now, n |-> last.n + 1]
        /\ UNCHANGED <<other, searchVars, moonVars, sunVars, laterVars>>

\* time = Astronomy_AddDays(time, days)
TimeAddDays ==
    \E d \in DaySteps :
        /\ last.n < MaxOps
        /\ Abs(now.ut + d) <= UtLimit
        /\ now' = AddDays(now, d)
        /\ last' = [op |-> "add", days |-> d, from |-> now, n |-> last.n + 1]
        /\ UNCHANGED <<other, searchVars, moonVars, sunVars, laterVars>>

\* The caller keeps a copy of the Time it holds.
TimeKeep ==
    /\ other # now
    /\ other' = now
    /\ UNCHANGED <<now, last, searchVars, moonVars, sunVars, laterVars>>

TimeInit == SearchIdle /\ TimeIdle /\ MoonIdle /\ SunIdle /\ LaterIdle

TimeNext == TimeMake \/ TimeAddDays \/ TimeKeep

TimeSpec == TimeInit /\ [][TimeNext]_vars

\* -------------------------------------------------- iterating the quarters
\* Consecutive quarters a caller asks for.
MaxQuarters == 9

MoonYears == {2010, 2020}

\* start_time = Astronomy_MakeTime(year, 1, 1, 0, 0, 0.0);
\* mq = Astronomy_SearchMoonQuarter(start_time);
MoonSearch ==
    \E year \in MoonYears :
        /\ mq.status = "none"
        /\ mq' = SearchMoonQuarter(moon, HourTime(year, 1, 1))
        /\ UNCHANGED <<moon, mqPrev, mqCount, searchVars, timeVars, sunVars, laterVars>>

\* mq = Astronomy_NextMoonQuarter(mq);
MoonNext ==
    /\ mq.status = "found"
    /\ mqCount < MaxQuarters
    /\ mq' = NextMoonQuarter(moon, mq)
    /\ mqPrev' = mq
    /\ mqCount' = mqCount + 1
    /\ UNCHANGED <<moon, searchVars, timeVars, sunVars, laterVars>>

MoonInit ==
    /\ SearchIdle /\ TimeIdle /\ SunIdle /\ LaterIdle
    /\ moon \in MoonModels
    /\ mq = NoQuarter
    /\ mqPrev = NoQuarter
    /\ mqCount = 0

MoonNextStep == MoonSearch \/ MoonNext

MoonSpec == MoonInit /\ [][MoonNextStep]_vars

\* ------------------------------------------------- seasons year after year
\* Years after the first that a caller asks for.
MaxYearSpan == 8

FirstSeasonYear == 2017

SeasonYears == FirstSeasonYear..(FirstSeasonYear + MaxYearSpan)

\* current_year = year; seasons = Astronomy_Seasons(year);
SeasonsFirst ==
    \E year \in SeasonYears :
        /\ seasons.status = "none"
        /\ seasons' = Seasons(sun, year)
        /\ UNCHANGED <<sun, seasonsPrev, searchVars, timeVars, moonVars, laterVars>>

\* The same for the calendar year that follows.
SeasonsNextYear ==
    /\ seasons.status = "found"
    /\ seasons.year + 1 \in SeasonYears
    /\ seasons' = Seasons(sun, seasons.year + 1)
    /\ seasonsPrev' = seasons
    /\ UNCHANGED <<sun, searchVars, timeVars, moonVars, laterVars>>

SeasonsInit ==
    /\ SearchIdle /\ TimeIdle /\ MoonIdle /\ LaterIdle
    /\ sun \in SunModels
    /\ seasons = NoSeasons
    /\ seasonsPrev = NoSeasons

SeasonsNext == SeasonsFirst \/ SeasonsNextYear

SeasonsSpec == SeasonsInit /\ [][SeasonsNext]_vars

\* ------------------------------------------------- calls on the rotations
\* Times at which frame rotations are asked for.
MaxRotTime == 3

RotTimes == 0..MaxRotTime

\* The calls a caller can make for a frame rotation, each with the matrix it
\* returns.
FrameCalls ==
    { [from |-> p[1], to |-> p[2], time |-> time, observer |-> observer,
       m |-> Rotation(p[1], p[2], time, observer)] :
          p \in {q \in Frames \X Frames : q[1] # q[2]},
          time \in RotTimes, observer \in Observers }

\* r = Astronomy.Rotation_A_B(time, observer)
RotFrame ==
    \E c \in FrameCalls :
        /\ rot' = Held("frame", c.m, IdentityMatrix, IdentityMatrix,
                       [from |-> c.from, to |-> c.to, time |-> c.time,
                        observer |-> c.observer])
        /\ UNCHANGED <<vec, notRotVars>>

\* r = Astronomy.CombineRotation(r, Astronomy.Rotation_A_B(time, observer))
RotCombine ==
    \E c \in FrameCalls :
        /\ rot.op \in {"frame", "inverse"}
        /\ rot' = Held("combine", CombineRotation(rot.m, c.m), rot.m, c.m, NoFrame)
        /\ UNCHANGED <<vec, notRotVars>>

\* r = Astronomy.InverseRotation(r)
RotInverse ==
    /\ rot.op \in {"frame", "combine"}
    /\ rot' = Held("inverse", InverseRotation(rot.m), rot.m, IdentityMatrix, NoFrame)
    /\ UNCHANGED <<vec, notRotVars>>

\* v = Astronomy.RotateVector(r, v)
RotVector ==
    /\ rot.op # "none"
    /\ vec' = RotateVector(rot.m, vec)
    /\ UNCHANGED <<rot, notRotVars>>

RotInit ==
    /\ SearchIdle /\ TimeIdle /\ MoonIdle /\ SunIdle
    /\ RotIdle /\ ApsisIdle /\ MemoIdle /\ RestIdle /\ LastIdle

RotNext == RotFrame \/ RotCombine \/ RotInverse \/ RotVector

RotSpec == RotInit /\ [][RotNext]_vars

\* --------------------------------------------------- iterating the apsides
\* Consecutive apsides a caller asks for.
MaxApsides == 6

\* Times from which a caller starts: 00:00 on January 1, and days later.
ApsisStarts == {HourTime(2020, 1, 1) + 24 * d : d \in {0, 3, 9, 14, 20}}

\* apsis = Astronomy.SearchLunarApsis(startTime)
ApsisSearch ==
    \E startTime \in ApsisStarts :
        /\ apsis.status = "none"
        /\ apsis' = SearchLunarApsis(orbit, startTime)
        /\ UNCHANGED <<orbit, apsisPrev, apsisCount, notApsisVars>>

\* apsis = Astronomy.NextLunarApsis(apsis)
ApsisNext ==
    /\ apsis.status = "found"
    /\ apsisCount < MaxApsides
    /\ apsis' = NextLunarApsis(orbit, apsis)
    /\ apsisPrev' = apsis
    /\ apsisCount' = apsisCount + 1
    /\ UNCHANGED <<orbit, notApsisVars>>

ApsisInit ==
    /\ SearchIdle /\ TimeIdle /\ MoonIdle /\ SunIdle /\ RotIdle /\ MemoIdle /\ RestIdle /\ LastIdle
    /\ orbit \in MoonOrbits
    /\ apsis = NoApsis
    /\ apsisPrev = NoApsis
    /\ apsisCount = 0

ApsisNextStep == ApsisSearch \/ ApsisNext

ApsisSpec == ApsisInit /\ [][ApsisNextStep]_vars

\* ------------------------------------- the same record passed in twice
\* Calls of NextMoonQuarter and NextLunarApsis a caller makes in between.
MaxPureCalls == 3

PureBudget == mqCount + apsisCount < MaxPureCalls

\* first = Astronomy.NextMoonQuarter(mq), the record mq kept as it was passed
PureQuarterFirst ==
    /\ mq.status = "found"
    /\ memo.quarterIn.status = "none"
    /\ memo' = [memo EXCEPT !.quarterIn = mq, !.quarterOut = NextMoonQuarter(moon, mq)]
    /\ UNCHANGED notPureVars

\* again = Astronomy.NextMoonQuarter(kept)
PureQuarterAgain ==
    /\ memo.quarterIn.status = "found"
    /\ memo' = [memo EXCEPT !.quarterAgain = NextMoonQuarter(moon, memo.quarterIn)]
    /\ UNCHANGED notPureVars

\* first = Astronomy.NextLunarApsis(apsis), the record apsis kept as it was passed
PureApsisFirst ==
    /\ apsis.status = "found"
    /\ memo.apsisIn.status = "none"
    /\ memo' = [memo EXCEPT !.apsisIn = apsis, !.apsisOut = NextLunarApsis(orbit, apsis)]
    /\ UNCHANGED notPureVars

\* again = Astronomy.NextLunarApsis(kept)
PureApsisAgain ==
    /\ memo.apsisIn.status = "found"
    /\ memo' = [memo EXCEPT !.apsisAgain = NextLunarApsis(orbit, memo.apsisIn)]
    /\ UNCHANGED notPureVars

\* The searches made in between.
PureMoonNext == PureBudget /\ MoonNext

PureApsisNext == PureBudget /\ ApsisNext

PureInit ==
    /\ SearchIdle /\ TimeIdle /\ SunIdle /\ RotIdle /\ MemoIdle /\ RestIdle /\ LastIdle
    /\ moon \in {MeanMoon, [new |-> 333, len |-> <<160, 196, 177, 196>>]}
    /\ mq = NoQuarter /\ mqPrev = NoQuarter /\ mqCount = 0
    /\ orbit \in {MeanOrbit, [peri |-> 150, out |-> 300, back |-> 360]}
    /\ apsis = NoApsis /\ apsisPrev = NoApsis /\ apsisCount = 0

PureNext ==
    \/ MoonSearch \/ PureMoonNext
    \/ ApsisSearch \/ PureApsisNext
    \/ PureQuarterFirst \/ PureQuarterAgain
    \/ PureApsisFirst \/ PureApsisAgain

PureSpec == PureInit /\ [][PureNext]_vars

\* ------------------------------------------------------ calls of rise and set
RiseStarts == 0..7

RiseLimits == {12, 24, 48}

\* time = Astronomy.SearchRiseSet(body, observer, direction, startTime, limitDays)
RiseSearch ==
    \E direction \in Directions, startTime \in RiseStarts, limitHours \in RiseLimits :
        /\ rise.status = "none"
        /\ rise' = CHOOSE c \in
                      { [sky |-> rise.sky, direction |-> direction, startTime |-> startTime,
                         limitHours |-> limitHours, status |-> r.status, time |-> r.time]
                        : r \in {SearchRiseSet(rise.sky, direction, startTime, limitHours)} } : TRUE
        /\ UNCHANGED notRiseVars

RiseInit ==
    /\ SearchIdle /\ TimeIdle /\ MoonIdle /\ SunIdle
    /\ RotIdle /\ ApsisIdle /\ MemoIdle /\ ErrIdle /\ BodyIdle /\ DiffIdle /\ MainIdle /\ FitIdle /\ LastIdle
    /\ \E sky \in Skies : rise = [NoRise EXCEPT !.sky = sky]

RiseNext == RiseSearch

RiseSpec == RiseInit /\ [][RiseNext]_vars

\* ------------------------------------- what an event search makes of RootSearch
\* Root searches for the first quarter after a start time: over the window of
\* 10 days or one too short to hold it, to the tolerance of the event searches
\* or to one finer than a tick, which no bracket meets.
ErrStarts == {HourTime(2020, 1, 1) + 200 * k : k \in 0..3}

RootSearches ==
    {Search([kind |-> "moon", moon |-> MeanMoon,
             target |-> QuarterTurn * ((1 + MoonPhase(MeanMoon, a) \div QuarterTurn) % 4)],
            a, a + w, e) :
        a \in ErrStarts, w \in {QuarterLimit, 2}, e \in {0, EventTolerance}}

Followed(search, inner, outer) == [search |-> search, inner |-> inner, outer |-> outer]

\* SearchMoonPhase and SearchSunLongitude return what RootSearch returned.
ErrLongitude ==
    \E r \in RootSearches, search \in {"SearchMoonPhase", "SearchSunLongitude"} :
        /\ err' = Followed(search, <<r>>, r)
        /\ UNCHANGED notErrVars

\* SearchMoonQuarter and NextMoonQuarter
ErrQuarter ==
    \E r \in RootSearches, quarter \in 0..3 :
        /\ err' = Followed("SearchMoonQuarter", <<r>>, QuarterInfo(r, quarter))
        /\ UNCHANGED notErrVars

\* SearchLunarApsis and NextLunarApsis
ErrApsis ==
    \E r \in RootSearches, kind \in {"Pericenter", "Apocenter"} :
        /\ err' = Followed("SearchLunarApsis", <<r>>, ApsisInfo(r, kind))
        /\ UNCHANGED notErrVars

\* Seasons
ErrSeasons ==
    \E mar \in RootSearches, jun \in RootSearches, sep \in RootSearches, dec \in RootSearches :
        /\ err' = Followed("Seasons", <<mar, jun, sep, dec>>,
                           SeasonsInfo(FirstSeasonYear, mar, jun, sep, dec))
        /\ UNCHANGED notErrVars

\* SearchRiseSet: one step, and the steps after it when it found nothing
ErrRiseSet ==
    \E found \in RootSearches, rest \in RootSearches :
        /\ err' = Followed("SearchRiseSet",
                           IF found.status = "notfound" THEN <<found, rest>> ELSE <<found>>,
                           RiseStepResult(found, rest))
        /\ UNCHANGED notErrVars

ErrInit ==
    /\ SearchIdle /\ TimeIdle /\ MoonIdle /\ SunIdle
    /\ RotIdle /\ ApsisIdle /\ MemoIdle /\ RiseIdle /\ ErrIdle /\ BodyIdle /\ DiffIdle /\ MainIdle /\ FitIdle /\ LastIdle

ErrNext == ErrLongitude \/ ErrQuarter \/ ErrApsis \/ ErrSeasons \/ ErrRiseSet

ErrSpec == ErrInit /\ [][ErrNext]_vars

\* ------------------------------------------------ calls of searches for a body
\* Days from which a caller searches.
BodyStarts == {0, 50, 300, 700}

\* search_result = Astronomy_SearchRelativeLongitude(body, targetRelLon, search_date);
BodyRelativeLongitude ==
    \E body \in Bodies, targetRelLon \in {0, 180}, startTime \in BodyStarts :
        /\ called' = CHOOSE c \in
              { Call("SearchRelativeLongitude", body, targetRelLon, startTime, r)
                : r \in {SearchRelativeLongitude(body, targetRelLon * PlanetScale, startTime)} } : TRUE
        /\ UNCHANGED notBodyVars

\* evt = Astronomy_SearchMaxElongation(test->body, searchTime);
BodyMaxElongation ==
    \E body \in Bodies, startTime \in BodyStarts :
        /\ called' = CHOOSE c \in
              { Call("SearchMaxElongation", body, 0, startTime, r)
                : r \in {SearchMaxElongation(body, startTime)} } : TRUE
        /\ UNCHANGED notBodyVars

\* Astronomy.SearchPeakMagnitude(body, startTime)
BodyPeakMagnitude ==
    \E body \in Bodies, startTime \in BodyStarts :
        /\ called' = CHOOSE c \in
              { Call("SearchPeakMagnitude", body, 0, startTime, r)
                : r \in {SearchPeakMagnitude(body, startTime)} } : TRUE
        /\ UNCHANGED notBodyVars

BodyInit ==
    /\ SearchIdle /\ TimeIdle /\ MoonIdle /\ SunIdle
    /\ RotIdle /\ ApsisIdle /\ MemoIdle /\ RiseIdle /\ ErrIdle /\ BodyIdle /\ DiffIdle /\ MainIdle /\ FitIdle /\ LastIdle

BodyNext == BodyRelativeLongitude \/ BodyMaxElongation \/ BodyPeakMagnitude

BodySpec == BodyInit /\ [][BodyNext]_vars

\* ---------------------------------------------------------- running ctest diff
\* The greatest difference put into a number of the second file.
MaxDelta == 3

\* A file as AstroCheck writes it: the observer, and a vector and the sky
\* coordinates of a body.
CheckFile ==
    << Record("o", "", <<29, -81, 10>>),
       Record("v", "Sun", <<10, 1, 2, 3>>),
       Record("s", "Sun", <<10, 9, 4, 5, 6, 7, 8>>) >>

\* The file with d added to number k of line i.
Changed(file, i, k, d) == [file EXCEPT ![i].data[k] = @ + d]

\* The file with another body, with a body or numbers missing, with a record
\* of another or of no valid type, with a line missing.
Restructured(file) ==
    {[file EXCEPT ![2].body = "Moon"],
     [file EXCEPT ![2].body = ""],
     [file EXCEPT ![2].data = SubSeq(@, 1, 3)],
     [file EXCEPT ![2].data = SubSeq(@, 1, 2)],
     [file EXCEPT ![3].type = "v"],
     [file EXCEPT ![3].type = "x"],
     SubSeq(file, 1, 2)}

\* Second files: the first one again, with one number changed, and these
\* with their structure changed.
OtherFiles ==
    {CheckFile}
    \cup UNION {{Changed(CheckFile, i, k, d) :
                    k \in 1..Len(CheckFile[i].data), d \in 1..MaxDelta} :
                i \in 1..Len(CheckFile)}
    \cup Restructured(CheckFile)
    \cup Restructured(Changed(CheckFile, 1, 1, 1))
    \cup Restructured(Changed(CheckFile, 3, 7, MaxDelta))

FirstFiles ==
    {CheckFile,
     [CheckFile EXCEPT ![3].type = "x"],
     [CheckFile EXCEPT ![2].data = SubSeq(@, 1, 2)],
     SubSeq(CheckFile, 1, 2)}

\* cread = fgets(...); jread = fgets(...); both read a line:
\* ++lnum; CHECK(DiffLine(lnum, cline, jline, &maxdiff, &worst_lnum));
DiffStep ==
    /\ compared.pc = "loop"
    /\ compared.lnum < Len(compared.cfile) /\ compared.lnum < Len(compared.jfile)
    /\ compared' = CHOOSE n \in
          { [compared EXCEPT !.lnum = compared.lnum + 1,
                         !.maxdiff = r.maxdiff,
                         !.worst_lnum = r.worst_lnum,
                         !.error = r.error,
                         !.pc = IF r.error # 0 THEN "done" ELSE "loop"]
            : r \in {DiffLine(compared.lnum + 1, compared.cfile[compared.lnum + 1],
                              compared.jfile[compared.lnum + 1], compared.maxdiff, compared.worst_lnum)} } : TRUE
    /\ UNCHANGED notDiffVars

\* Mutant: the comparison ends where the shorter file ends.
DiffUneven_Accepted ==
    /\ compared.pc = "loop"
    /\ (compared.lnum < Len(compared.cfile)) # (compared.lnum < Len(compared.jfile))
    /\ compared' = [compared EXCEPT !.error = IF compared.maxdiff > DiffTolerance THEN 1 ELSE 0,
                            !.pc = "done"]
    /\ UNCHANGED notDiffVars

\* One file has ended and the other has not: the files do not have the same
\* number of lines.
DiffUneven ==
    /\ compared.pc = "loop"
    /\ (compared.lnum < Len(compared.cfile)) # (compared.lnum < Len(compared.jfile))
    /\ compared' = [compared EXCEPT !.error = 1, !.pc = "done"]
    /\ UNCHANGED notDiffVars

\* Both files have ended: the greatest difference decides.
DiffEnd ==
    /\ compared.pc = "loop"
    /\ compared.lnum >= Len(compared.cfile) /\ compared.lnum >= Len(compared.jfile)
    /\ compared' = [compared EXCEPT !.error = IF compared.maxdiff > DiffTolerance THEN 1 ELSE 0,
                            !.pc = "done"]
    /\ UNCHANGED notDiffVars

DiffInit ==
    /\ SearchIdle /\ TimeIdle /\ MoonIdle /\ SunIdle
    /\ RotIdle /\ ApsisIdle /\ MemoIdle /\ RiseIdle /\ ErrIdle /\ BodyIdle /\ MainIdle /\ FitIdle /\ LastIdle
    /\ \E cfile \in FirstFiles, jfile \in OtherFiles : compared = Diffing(cfile, jfile)

DiffNext == DiffStep \/ DiffUneven \/ DiffEnd

DiffSpec == DiffInit /\ [][DiffNext]_vars

\* ------------------------------------------------------------ running ctest
\* Command lines, argv[0] left out.
CommandLines ==
    {<<>>, <<"elongation">>, <<"bogus">>, <<"seasons">>, <<"diff">>,
     <<"seasons", "f">>, <<"moonphase", "f">>, <<"riseset", "f">>,
     <<"elongation", "f">>, <<"bogus", "f">>, <<"diff", "a">>,
     <<"diff", "a", "b">>, <<"seasons", "a", "b">>, <<"a", "b", "c", "d">>}

\* What the test returns is stored in error; main goes on after it when the
\* test passed.
RunTest(test, after) ==
    prog' = [prog EXCEPT !.ran = Append(prog.ran, test),
                         !.error = prog.returns[test],
                         !.pc = IF Failed(prog.returns[test]) THEN "fail" ELSE after]

\* if (argc == 1) { CHECK(Test_AstroTime());
MainAstroTime ==
    /\ prog.pc = "start"
    /\ Len(prog.argv) = 0
    /\ RunTest("Test_AstroTime", "astrocheck")
    /\ UNCHANGED notMainVars

\* CHECK(AstroCheck()); goto success; }
MainAstroCheck ==
    /\ prog.pc = "astrocheck"
    /\ RunTest("AstroCheck", "success")
    /\ UNCHANGED notMainVars

\* The test of the verb: CHECK(...); goto success;
MainVerb ==
    /\ prog.pc = "start"
    /\ Len(prog.argv) > 0
    /\ TestFor(prog.argv) # ""
    /\ RunTest(TestFor(prog.argv), "success")
    /\ UNCHANGED notMainVars

\* fprintf(stderr, "Invalid command line arguments.\n"); error = 1; goto fail;
MainInvalid ==
    /\ prog.pc = "start"
    /\ TestFor(prog.argv) = ""
    /\ prog' = [prog EXCEPT !.error = 1, !.pc = "fail"]
    /\ UNCHANGED notMainVars

\* success: error = 0;
MainSuccess ==
    /\ prog.pc = "success"
    /\ prog' = [prog EXCEPT !.error = 0, !.pc = "fail"]
    /\ UNCHANGED notMainVars

\* fail: return error;
MainReturn ==
    /\ prog.pc = "fail"
    /\ prog' = [prog EXCEPT !.pc = "exit"]
    /\ UNCHANGED notMainVars

MainInit ==
    /\ SearchIdle /\ TimeIdle /\ MoonIdle /\ SunIdle
    /\ RotIdle /\ ApsisIdle /\ MemoIdle /\ RiseIdle /\ ErrIdle /\ BodyIdle /\ DiffIdle /\ FitIdle /\ LastIdle
    /\ \E argv \in CommandLines, returns \in [Tests -> {0, 1}] :
          prog = Started(argv, returns)

MainNext ==
    MainAstroTime \/ MainAstroCheck \/ MainVerb \/ MainInvalid \/ MainSuccess \/ MainReturn

MainSpec == MainInit /\ [][MainNext]_vars

\* -------------------------------------------------------- running AstroCheck
\* The times of the grid from 1700 to 2200, 10 + PI/100 days apart, counted.
MaxCheckTimes == 3

Statuses == {"success", "failure"}

\* CHECK(x) on the status of a call: error = x, and to `fail` when it is not
\* 0; else on to `next`.
AstroChecked(status, next) ==
    LET error == CheckStatus(status)
        place == IF error # 0 THEN [astro EXCEPT !.pc = "done"] ELSE next
    IN  [place EXCEPT !.error = error,
                      !.calls = astro.calls + 1,
                      !.failed = (status # "success")]

\* outfile = fopen(filename, "wt"); if (outfile == NULL) { error = 1; goto fail; }
AstroOpen ==
    /\ astro.pc = "open"
    /\ astro' = IF astro.opens THEN [astro EXCEPT !.pc = "loop"]
                ELSE [astro EXCEPT !.error = 1, !.pc = "done"]
    /\ UNCHANGED notAstroVars

\* while (time.tt < stop.tt): into the loop over the bodies, or past the
\* loop to `fail:` and return error.
AstroLoop ==
    /\ astro.pc = "loop"
    /\ astro' = IF astro.time < MaxCheckTimes
                THEN [astro EXCEPT !.b = 1, !.pc = "helio"]
                ELSE [astro EXCEPT !.pc = "done"]
    /\ UNCHANGED notAstroVars

\* The place after the calls for body b: the next body, or the Moon.
AfterBody ==
    IF astro.b < Len(BodyList)
    THEN [astro EXCEPT !.b = astro.b + 1, !.pc = "helio"]
    ELSE [astro EXCEPT !.pc = "geomoon"]

\* CHECK_VECTOR(pos, Astronomy_HelioVector(body, time));
AstroHelioVector ==
    /\ astro.pc = "helio"
    /\ \E status \in Statuses :
          astro' = AstroChecked(status,
                       IF BodyList[astro.b] # "Earth"
                       THEN [astro EXCEPT !.pc = "j2000"]
                       ELSE AfterBody)
    /\ UNCHANGED notAstroVars

\* CHECK_EQU(j2000, Astronomy_Equator(body, time, observer, 0, 0));
AstroEquatorJ2000 ==
    /\ astro.pc = "j2000"
    /\ \E status \in Statuses :
          astro' = AstroChecked(status, [astro EXCEPT !.pc = "ofdate"])
    /\ UNCHANGED notAstroVars

\* CHECK_EQU(ofdate, Astronomy_Equator(body, time, observer, 1, 1));
AstroEquatorOfDate ==
    /\ astro.pc = "ofdate"
    /\ \E status \in Statuses : astro' = AstroChecked(status, AfterBody)
    /\ UNCHANGED notAstroVars

\* CHECK_VECTOR(pos, Astronomy_GeoVector(BODY_MOON, time, 0));
AstroGeoMoon ==
    /\ astro.pc = "geomoon"
    /\ \E status \in Statuses :
          astro' = AstroChecked(status, [astro EXCEPT !.pc = "moonj2000"])
    /\ UNCHANGED notAstroVars

\* CHECK_EQU(j2000, Astronomy_Equator(BODY_MOON, time, observer, 0, 0));
AstroMoonJ2000 ==
    /\ astro.pc = "moonj2000"
    /\ \E status \in Statuses :
          astro' = AstroChecked(status, [astro EXCEPT !.pc = "moonofdate"])
    /\ UNCHANGED notAstroVars

\* CHECK_EQU(ofdate, Astronomy_Equator(BODY_MOON, time, observer, 1, 1));
\* time = Astronomy_AddDays(time, 10.0 + PI/100.0);
AstroMoonOfDate ==
    /\ astro.pc = "moonofdate"
    /\ \E status \in Statuses :
          astro' = AstroChecked(status, [astro EXCEPT !.time = astro.time + 1, !.pc = "loop"])
    /\ UNCHANGED notAstroVars

AstroInit ==
    /\ SearchIdle /\ TimeIdle /\ MoonIdle /\ SunIdle
    /\ RotIdle /\ ApsisIdle /\ MemoIdle /\ RestIdle /\ PlanetIdle /\ ScriptIdle
    /\ \E opens \in BOOLEAN : astro = Checking(opens)

AstroNext ==
    \/ AstroOpen \/ AstroLoop \/ AstroHelioVector \/ AstroEquatorJ2000 \/ AstroEquatorOfDate
    \/ AstroGeoMoon \/ AstroMoonJ2000 \/ AstroMoonOfDate

AstroSpec == AstroInit /\ [][AstroNext]_vars

\* -------------------------------------------- running TestPlanetLongitudes
\* The days from the start of the test to its end.
MaxPlanetSpan == 1700

\* The bodies ElongationTest calls TestPlanetLongitudes with.
TestedPlanets ==
    {"Mercury", "Venus", "Mars", "Jupiter", "Saturn", "Uranus", "Neptune", "Pluto"}

\* The day of the synodic cycle on which the test starts.
PlanetStarts == {0, 50, 300, 700}

\* Mutant: the same longitude is searched again.
NextRelLon_Same(rlon) == rlon

\* rlon = 180.0 - rlon
NextRelLon(rlon) == 180 - rlon

\* thresh, in hundredths.
Thresh(body) ==
    IF body = "Mercury" THEN 165 ELSE IF body = "Mars" THEN 130 ELSE 107

\* name = Astronomy_BodyName(body); if (!name[0]) { error = 1; goto fail; }
PlanetName ==
    /\ planet.pc = "name"
    /\ planet' = IF planet.body \in Bodies THEN [planet EXCEPT !.pc = "open"]
                 ELSE [planet EXCEPT !.error = 1, !.pc = "done"]
    /\ UNCHANGED notPlanetVars

\* outfile = fopen(outFileName, "wt"); if (outfile == NULL) { error = 1; goto fail; }
PlanetOpen ==
    /\ planet.pc = "open"
    /\ planet' = IF planet.opens THEN [planet EXCEPT !.pc = "loop"]
                 ELSE [planet EXCEPT !.error = 1, !.pc = "done"]
    /\ UNCHANGED notPlanetVars

\* while (time.tt < stopTime.tt) { ++count; ...
PlanetLoop ==
    /\ planet.pc = "loop"
    /\ planet' = IF planet.time < planet.stop
                 THEN [planet EXCEPT !.count = planet.count + 1, !.pc = "search"]
                 ELSE [planet EXCEPT !.pc = "ratio"]
    /\ UNCHANGED notPlanetVars

\* The record after a search that succeeded: from the second event on,
\* day_diff = search_result.time.tt - time.tt is taken into min_diff and
\* max_diff.
Measured(r) ==
    LET day_diff == r.time - planet.time
        searched == [planet EXCEPT !.found = r.time, !.from = planet.time,
                                   !.target = planet.rlon, !.pc = "geo"]
    IN  IF planet.count < 2 THEN searched
        ELSE IF planet.count = 2
        THEN [searched EXCEPT !.min_diff = day_diff, !.max_diff = day_diff]
        ELSE [searched EXCEPT !.min_diff = Min(planet.min_diff, day_diff),
                              !.max_diff = Max(planet.max_diff, day_diff)]

\* search_result = Astronomy_SearchRelativeLongitude(body, rlon, time);
\* if (search_result.status != ASTRO_SUCCESS) { error = 1; goto fail; }
PlanetSearch ==
    /\ planet.pc = "search"
    /\ planet' = CHOOSE n \in
          { IF r.status # "found" THEN [planet EXCEPT !.error = 1, !.pc = "done"]
            ELSE Measured(r)
            : r \in {SearchRelativeLongitude(planet.body, planet.rlon * PlanetScale,
                                             planet.time)} } : TRUE
    /\ UNCHANGED notPlanetVars

\* geo = Astronomy_GeoVector(body, search_result.time, 0); on success the
\* event is written, time = search_result.time; rlon = 180.0 - rlon.
PlanetGeoVector ==
    /\ planet.pc = "geo"
    /\ \E status \in Statuses :
          planet' = IF status # "success" THEN [planet EXCEPT !.error = 1, !.pc = "done"]
                    ELSE [planet EXCEPT !.time = planet.found,
                                        !.rlon = NextRelLon(planet.rlon),
                                        !.pc = "loop"]
    /\ UNCHANGED notPlanetVars

\* ratio = max_diff / min_diff; if (ratio > thresh) { error = 1; goto fail; }
\* error = 0;
PlanetRatio ==
    /\ planet.pc = "ratio"
    /\ planet' = [planet EXCEPT
                     !.error = IF 100 * planet.max_diff > Thresh(planet.body) * planet.min_diff
                               THEN 1 ELSE 0,
                     !.pc = "done"]
    /\ UNCHANGED notPlanetVars

PlanetInit ==
    /\ SearchIdle /\ TimeIdle /\ MoonIdle /\ SunIdle
    /\ RotIdle /\ ApsisIdle /\ MemoIdle /\ RestIdle /\ AstroIdle /\ ScriptIdle
    /\ \E body \in TestedPlanets, opens \in BOOLEAN, start \in PlanetStarts :
          planet = Longitudes(body, opens, start, start + MaxPlanetSpan)

PlanetNext ==
    \/ PlanetName \/ PlanetOpen \/ PlanetLoop \/ PlanetSearch \/ PlanetGeoVector
    \/ PlanetRatio

PlanetSpec == PlanetInit /\ [][PlanetNext]_vars

\* The test runs on: each of its steps is taken once it can be, and a search
\* that was called returns (the test is not at the call for ever).
PlanetLiveSpec ==
    /\ PlanetSpec
    /\ WF_vars(PlanetName \/ PlanetOpen \/ PlanetLoop \/ PlanetGeoVector \/ PlanetRatio)
    /\ []<>(planet.pc # "search")

\* ------------------------------------------------------- running the script
\* for attempt in {1..10}
MaxAttempts == 10

\* sleep 9
RetrySleep == 9

Arguments == {"", "-v", "-x"}

Installed == [wget : BOOLEAN, curl : BOOLEAN, sha256sum : BOOLEAN, md5sum : BOOLEAN]

\* The status a command returns.
ExitStatuses == {0, 1, 2}

\* Fail: exit 1.  exit N.
Exited(sc, code) == [sc EXCEPT !.pc = "exit", !.exit = code]

\* [[ "$1" == "" || "$1" == "-v" ]] || Fail "Invalid command line options."
ScriptArgs ==
    /\ script.pc = "args"
    /\ script' = IF script.arg \in {"", "-v"} THEN [script EXCEPT !.pc = "exists", !.file = 1]
                 ELSE Exited(script, 1)
    /\ UNCHANGED notScriptVars

\* if [[ ! -f ${FILE} ]]; then: wget when installed, elif curl, else exit 1.
ScriptExists ==
    /\ script.pc = "exists"
    /\ script' = IF script.present[script.file] THEN [script EXCEPT !.pc = "checksum"]
                 ELSE IF script.has.wget THEN [script EXCEPT !.pc = "wget", !.attempt = 1]
                 ELSE IF script.has.curl THEN [script EXCEPT !.pc = "curl"]
                 ELSE Exited(script, 1)
    /\ UNCHANGED notScriptVars

\* One round of the loop over the attempts: sleep 9 when [[ ${attempt} > 1 ]],
\* then wget; a success breaks the loop, and after the last round
\* [[ ${wget_success} == true ]] || Fail.
ScriptWget ==
    /\ script.pc = "wget"
    /\ \E status \in ExitStatuses :
          LET fl == script.file
              slept == IF StringGreater(Digits(script.attempt), Digits(1))
                       THEN script.slept[fl] + RetrySleep ELSE script.slept[fl]
              tried == [script EXCEPT !.slept[fl] = slept, !.wgets[fl] = @ + 1]
          IN  script' = IF ~Fails(status)
                        THEN [tried EXCEPT !.got[fl] = TRUE, !.present[fl] = TRUE,
                                           !.pc = "checksum"]
                        ELSE IF script.attempt < MaxAttempts
                        THEN [tried EXCEPT !.attempt = @ + 1]
                        ELSE Exited(tried, 1)
    /\ UNCHANGED notScriptVars

\* curl -L -o ${FILE} ${URL} || Fail
ScriptCurl ==
    /\ script.pc = "curl"
    /\ \E status \in ExitStatuses :
          LET fl == script.file
              tried == [script EXCEPT !.curls[fl] = @ + 1]
          IN  script' = IF Fails(status) THEN Exited(tried, 1)
                        ELSE [tried EXCEPT !.got[fl] = TRUE, !.present[fl] = TRUE,
                                           !.pc = "checksum"]
    /\ UNCHANGED notScriptVars

\* The place after the checksum of a file: the next file, or the stages.
AfterFile(sc) ==
    IF sc.file < Len(DataFiles) THEN [sc EXCEPT !.file = @ + 1, !.pc = "exists"]
    ELSE [sc EXCEPT !.pc = "stage", !.stage = 1]

\* The checksum of the file with sha256sum, else md5sum: a failed check
\* removes the file and ends the script; with neither installed a warning.
ScriptChecksum ==
    /\ script.pc = "checksum"
    /\ \E status \in ExitStatuses :
          LET fl == script.file
              tool == ChecksumTool(script.has)
          IN  script' = IF tool = "none" THEN AfterFile([script EXCEPT !.checked[fl] = "skipped"])
                        ELSE IF Fails(status)
                        THEN Exited([script EXCEPT !.checked[fl] = "failed",
                                                   !.present[fl] = FALSE], 1)
                        ELSE AfterFile([script EXCEPT !.checked[fl] = tool])
    /\ UNCHANGED notScriptVars

\* FASTMODE: the planet models are generated only when a model file is missing.
Skipped(sc) == Stages[sc.stage] = "generate planets" /\ sc.models

\* One command of the list: command || Fail "...", or command || exit $?.
ScriptStage ==
    /\ script.pc = "stage" /\ script.stage <= Len(Stages)
    /\ \E status \in ExitStatuses :
          LET name == Stages[script.stage]
              run == [script EXCEPT !.ran = Append(@, name), !.status = status]
          IN  script' = IF Skipped(script) THEN [script EXCEPT !.stage = @ + 1]
                        ELSE IF Fails(status)
                        THEN Exited([run EXCEPT !.failed = name],
                                    IF name \in ExitsWithStatus THEN status ELSE 1)
                        ELSE [run EXCEPT !.stage = @ + 1]
    /\ UNCHANGED notScriptVars

\* cat pass.txt; exit 0
ScriptPass ==
    /\ script.pc = "stage" /\ script.stage > Len(Stages)
    /\ script' = Exited([script EXCEPT !.passed = TRUE], 0)
    /\ UNCHANGED notScriptVars

ScriptInit ==
    /\ SearchIdle /\ TimeIdle /\ MoonIdle /\ SunIdle
    /\ RotIdle /\ ApsisIdle /\ MemoIdle /\ RestIdle /\ AstroIdle /\ PlanetIdle
    /\ \E arg \in Arguments, has \in Installed, present \in [1..2 -> BOOLEAN],
          models \in BOOLEAN :
          script = Running(arg, has, <<present[1], present[2]>>, models)

ScriptNext ==
    \/ ScriptArgs \/ ScriptExists \/ ScriptWget \/ ScriptCurl \/ ScriptChecksum
    \/ ScriptStage \/ ScriptPass

ScriptSpec == ScriptInit /\ [][ScriptNext]_vars

\* -------------------------------------------------- the parabola of a bracket
\* The samples are whole numbers of half units, from -MaxSample to MaxSample
\* units.
MaxSample == 4

Samples == {2 * k : k \in (-MaxSample)..MaxSample}

\* p = Parabola(Func, ta, tb)
FitParabola ==
    /\ fit.pc = "sampled"
    /\ fit' = [fit EXCEPT !.p = Parabola(fit.fa, fit.fm, fit.fb), !.pc = "fitted"]
    /\ UNCHANGED notFitVars

FitInit ==
    /\ SearchIdle /\ TimeIdle /\ MoonIdle /\ SunIdle
    /\ RotIdle /\ ApsisIdle /\ MemoIdle
    /\ RiseIdle /\ ErrIdle /\ BodyIdle /\ DiffIdle /\ MainIdle /\ LastIdle
    /\ \E fa \in Samples, fm \in Samples, fb \in Samples : fit = Fitting(fa, fm, fb)

\* x = Solve(p)
FitSolve ==
    /\ fit.pc = "fitted"
    /\ fit' = [fit EXCEPT !.x = Solve(fit.p), !.pc = "solved"]
    /\ UNCHANGED notFitVars

FitNext == FitParabola \/ FitSolve

FitSpec == FitInit /\ [][FitNext]_vars

\* ------------------------------------------------------------------ claims
\* f is negative at k and not negative at k + 1, or the reverse.
AscendsAt(fn, k) == Func(fn, k) < 0 /\ Func(fn, k + 1) >= 0

DescendsAt(fn, k) == Func(fn, k) >= 0 /\ Func(fn, k + 1) < 0

\* The number of times f changes between negative and not negative in [a, b].
Crossings(fn, a, b) ==
    Cardinality({k \in a..(b - 1) : AscendsAt(fn, k) \/ DescendsAt(fn, k)})

Ended == pc \in {"found", "notfound", "fatal"}

CosineFunc == [kind |-> "cos", tab |-> ZeroTab, sign |-> 1]

NegatedCosineFunc == [kind |-> "cos", tab |-> ZeroTab, sign |-> -1]

\* The tick nearest the root 0.7391 of cos(t) - t.
CosRoot == 739

\* C1: Search returns a Time only at an ascending root: the returned time lies
\* in a bracket on whose left end f is negative and on whose right end f is
\* not negative; and when the window holds a descending crossing and no
\* ascending one, the search ends with NotFound.
C1_AscendingRootOnly ==
    /\ pc = "found" =>
          /\ ta <= result /\ result <= tb
          /\ Func(f, ta) < 0 /\ Func(f, tb) >= 0
    /\ ( /\ Ended
         /\ \E k \in t1..(t2 - 1) : DescendsAt(f, k)
         /\ \A k \in t1..(t2 - 1) : ~AscendsAt(f, k) ) => pc = "notfound"

\* A search that ran more than one iteration and returned the ascending root
\* of a function that also descends through zero inside the window.
C1_Witness ==
    /\ pc = "found" /\ iter >= 2
    /\ \E k \in t1..(t2 - 1) : DescendsAt(f, k)

\* C2 (as claimed): Search returns NotFound for every window in which f has
\* zero sign changes and for every window in which f has two sign changes.
C2_NotFoundForZeroOrTwoCrossings ==
    (Ended /\ Crossings(f, t1, t2) \in {0, 2}) => pc = "notfound"

\* C3: every Time Search returns lies in the window it was given, and so does
\* every bracket on the way.
C3_ResultInsideWindow ==
    /\ t1 <= ta /\ ta <= tb /\ tb <= t2
    /\ pc = "found" => (t1 <= result /\ result <= t2)

\* A result on the upper edge of the window, after more than one iteration.
C3_Witness == pc = "found" /\ result = t2 /\ iter >= 2

\* C4: a search never iterates more than 20 times and ends in exactly one of
\* the three outcomes (only "found" carries a Time); the fatal error is what
\* follows 20 iterations with the search still running, and it is raised at
\* no other moment; an outcome, once reached, stays.
C4_AtMostTwentyIterations ==
    /\ [](/\ iter \in 0..20
          /\ pc \in {"run", "found", "notfound", "fatal"}
          /\ (pc = "found") <=> (result # NoTime)
          /\ pc = "fatal" => iter = 20)
    /\ [][/\ (pc = "run" /\ iter = 20) => pc' = "fatal"
          /\ (pc = "run" /\ iter < 20) => (iter' = iter + 1 /\ pc' # "fatal")
          /\ pc # "run" => UNCHANGED vars]_vars

\* The fatal error after the twentieth iteration.
C4_Witness == pc = "fatal" /\ iter = 20

\* C5: Search stops with a Time only once the bracket is no wider than the
\* tolerance, the Time lies in that bracket, and f ascends through zero
\* inside it, so within the tolerance of the Time returned.
C5_WithinTolerance ==
    pc = "found" =>
        /\ tb - ta <= tol
        /\ ta <= result /\ result <= tb
        /\ \E k \in ta..(tb - 1) :
              /\ AscendsAt(f, k)
              /\ Abs(result - k) <= tol /\ Abs(result - (k + 1)) <= tol

\* A result found after the bracket had to shrink from a window wider than
\* the tolerance.
C5_Witness == pc = "found" /\ t2 - t1 > 2 * tol /\ tb - ta = tol /\ iter >= 2

C9_AddDaysZeroIsIdentity ==
    /\ AddDays(now, 0) = now
    /\ AddDays(other, 0) = other
    /\ (last.op = "add" /\ last.days = 0) =>
          (now.ut = last.from.ut /\ now.tt = last.from.tt)

\* AddDays was called with 0 days on a Time, away from the epoch, that an
\* earlier AddDays had made.
C9_Witness ==
    /\ last.op = "add" /\ last.days = 0 /\ last.n >= 3
    /\ now = last.from
    /\ now.ut # 0 /\ now.tt # now.ut + DeltaT(0)

\* C10: every Time has tt = ut + DeltaT(ut)/86400; AddDays adds the days to ut
\* exactly and computes tt from the new ut; two Times with the same ut have
\* the same tt however they were made.
C10_TerrestrialFromUniversal ==
    /\ now.tt = now.ut + DeltaT(now.ut)
    /\ other.tt = other.ut + DeltaT(other.ut)
    /\ last.op = "add" =>
          /\ now.ut = last.from.ut + last.days
          /\ now.tt = TerrestrialTime(last.from.ut + last.days)
    /\ now.ut = other.ut => now.tt = other.tt

\* AddDays arrived at the ut of a Time kept earlier, over a span in which
\* Delta-T changed: tt is not the old tt plus the days.
C10_Witness ==
    /\ last.op = "add"
    /\ now.tt # last.from.tt + last.days
    /\ now.ut = other.ut /\ other # last.from

\* C7: after a successful SearchMoonQuarter, every NextMoonQuarter yields a
\* quarter in 0..3 that is the previous quarter plus one mod 4, at a time
\* strictly later than the previous record's.
C7_QuartersCycle ==
    /\ mq.status = "found" => mq.quarter \in 0..3
    /\ mqCount >= 1 =>
          /\ mq.status = "found"
          /\ mq.quarter = (mqPrev.quarter + 1) % 4
          /\ mq.time > mqPrev.time

\* NextMoonQuarter has gone round the cycle: from the third quarter to the
\* new moon, more than four calls in.
C7_Witness ==
    /\ mqCount >= 5
    /\ mqPrev.quarter = 3 /\ mq.quarter = 0
    /\ mq.status = "found" /\ mq.time > mqPrev.time

\* C8: Seasons(year) returns four times for every year asked, with
\* mar_equinox < jun_solstice < sep_equinox < dec_solstice, and the
\* dec_solstice of a year is strictly earlier than the mar_equinox of the year
\* after it.
C8_SeasonsInOrder ==
    /\ seasons.status # "none" =>
          /\ seasons.status = "found"
          /\ seasons.mar_equinox < seasons.jun_solstice
          /\ seasons.jun_solstice < seasons.sep_equinox
          /\ seasons.sep_equinox < seasons.dec_solstice
    /\ (seasonsPrev.status = "found" /\ seasons.year = seasonsPrev.year + 1) =>
          seasonsPrev.dec_solstice < seasons.mar_equinox

\* The seasons of a leap year, asked for after those of the year before it.
C8_Witness ==
    /\ seasons.status = "found" /\ seasonsPrev.status = "found"
    /\ seasons.year = 2020 /\ seasonsPrev.year = 2019
    /\ seasonsPrev.dec_solstice < seasons.mar_equinox
    /\ seasons.mar_equinox < seasons.dec_solstice

\* For the frame rotation the caller holds: the rotation the other way at the
\* same time, for the same observer.
Opposite(h) == Rotation(h.frame.to, h.frame.from, h.frame.time, h.frame.observer)

C12_CombineAppliesFirstThenSecond ==
    /\ rot.op = "combine" =>
          /\ rot.m = CombineRotation(rot.a, rot.b)
          /\ RotateVector(rot.m, vec) = RotateVector(rot.b, RotateVector(rot.a, vec))
    /\ \A time \in RotTimes :
          RotateVector(CombineRotation(rot.m, Precession(time)), vec)
              = RotateVector(Precession(time), RotateVector(rot.m, vec))

\* A combination whose two rotations do not commute on the vector held.
C12_Witness ==
    /\ rot.op = "combine"
    /\ RotateVector(rot.b, RotateVector(rot.a, vec))
           # RotateVector(rot.a, RotateVector(rot.b, vec))
    /\ vec # <<1, 2, 3>>

\* The Moon's distance has a minimum (kind Pericenter) or a maximum (kind
\* Apocenter) within a tick of time t.
ApsisAt(o, kind, t) ==
    \E k \in (t - 1)..(t + 1) :
        /\ ApsisDirection(kind) * DistanceSlope(o, k - 1) < 0
        /\ ApsisDirection(kind) * DistanceSlope(o, k + 1) > 0

\* C14: SearchLunarApsis and every NextLunarApsis after it succeed; each
\* result of NextLunarApsis is of the other kind than the record passed in and
\* strictly later, and lies where the distance has such an extreme.
C14_ApsidesAlternate ==
    /\ apsis.status # "none" =>
          /\ apsis.status = "found"
          /\ ApsisAt(orbit, apsis.kind, apsis.time)
    /\ apsisCount >= 1 =>
          /\ apsis.kind # apsisPrev.kind
          /\ {apsis.kind, apsisPrev.kind} = {"Pericenter", "Apocenter"}
          /\ apsis.time > apsisPrev.time

\* Several apsides in: a perigee that followed an apogee, on an orbit whose
\* way out and way back differ in length.
C14_Witness ==
    /\ apsisCount >= 4
    /\ apsisPrev.kind = "Apocenter" /\ apsis.kind = "Pericenter"
    /\ apsis.status = "found" /\ apsis.time > apsisPrev.time
    /\ orbit.out # orbit.back

CrossesAt(c, k) ==
    /\ c.direction * Altitude(c.sky, k) < 0
    /\ c.direction * Altitude(c.sky, k + 1) > 0

\* The ticks within the limit of the call.
RiseWindowEnd(c) == c.startTime + c.limitHours * RiseStep

\* C15: SearchRiseSet never ends in an error; it returns the absent result
\* exactly when the body does not cross the horizon in the direction asked for
\* within the limit, and a time it returns lies within the limit.
C15_AbsentExactlyWhenNoCrossing ==
    rise.status # "none" =>
        /\ rise.status \in {"found", "notfound"}
        /\ rise.status = "notfound" <=>
              ~ \E k \in rise.startTime..(RiseWindowEnd(rise) - 1) : CrossesAt(rise, k)
        /\ rise.status = "found" =>
              rise.startTime <= rise.time /\ rise.time <= RiseWindowEnd(rise)

\* C15, the part that holds: no error; where the body does not cross, the
\* result is absent; a time returned is within the limit and at a crossing.
C15_AbsentWhenNoCrossing ==
    rise.status # "none" =>
        /\ rise.status \in {"found", "notfound"}
        /\ (~ \E k \in rise.startTime..(RiseWindowEnd(rise) - 1) : CrossesAt(rise, k))
              => rise.status = "notfound"
        /\ rise.status = "found" =>
              /\ rise.startTime <= rise.time /\ rise.time <= RiseWindowEnd(rise)
              /\ \E k \in (rise.time - 1)..rise.time : CrossesAt(rise, k)

\* The statuses of the root searches an event search made.
InnerStatuses == {err.inner[i].status : i \in DOMAIN err.inner}

Unsupported(c) ==
    \/ c.search = "SearchRelativeLongitude" /\ c.body \in {"Earth", "Sun", "Moon"}
    \/ c.search = "SearchMaxElongation" /\ c.body \notin {"Mercury", "Venus"}
    \/ c.search = "SearchPeakMagnitude" /\ c.body # "Venus"

\* C17: SearchRelativeLongitude called with the Earth, the Sun or the Moon,
\* SearchMaxElongation with a body other than Mercury and Venus, and
\* SearchPeakMagnitude with a body other than Venus end with the error of an
\* invalid body, never with a time or NotFound; with a body they support they
\* do not end with that error.
C17_UnsupportedBodyIsAnError ==
    called.search # "none" =>
        (Unsupported(called) <=> called.status = "invalid_body")

\* SearchMaxElongation called with Mars, whose greatest elongation the model
\* could find.
C17_Witness ==
    /\ called.search = "SearchMaxElongation"
    /\ called.body = "Mars"
    /\ called.status = "invalid_body"
    /\ SearchGreatest("Mars", 0, called.startTime).status = "found"

\* The numbers of a record of the type: 3 of the observer, tt, x, y, z of a
\* vector, 7 of the sky coordinates.
NumbersOf(type) == IF type = "o" THEN 3 ELSE IF type = "v" THEN 4 ELSE 7

\* Line i of both files agrees in its first n numbers within the tolerance.
Agree(i, n) ==
    /\ Len(compared.cfile[i].data) >= n /\ Len(compared.jfile[i].data) >= n
    /\ \A k \in 1..n :
          Abs(compared.cfile[i].data[k] - compared.jfile[i].data[k]) <= DiffTolerance

Accepted == compared.pc = "done" /\ compared.error = 0

\* C18: ctest diff accepts two files only if every number of every paired
\* record agrees within the tolerance: 3 of an observer record, tt, x, y and z
\* of a vector record, 7 of a sky record.
C18_AcceptedFilesAgree ==
    Accepted =>
        /\ Len(compared.cfile) = Len(compared.jfile)
        /\ \A i \in 1..Len(compared.cfile) :
              /\ compared.cfile[i].type = compared.jfile[i].type
              /\ Agree(i, NumbersOf(compared.cfile[i].type))

\* C18, the part that holds: accepted files pair line by line in type and
\* body and agree in the numbers the formats read, which leave out the z of
\* a vector record.
C18_AcceptedFilesAgreeAsRead ==
    Accepted =>
        /\ Len(compared.cfile) = Len(compared.jfile)
        /\ \A i \in 1..Len(compared.cfile) :
              /\ compared.cfile[i].type = compared.jfile[i].type
              /\ compared.cfile[i].body = compared.jfile[i].body
              /\ Agree(i, FormatNumbers(compared.cfile[i].type))

\* The tests the arguments select: none for arguments that name no test.
Selected(argv) ==
    IF argv = <<>> THEN {"Test_AstroTime", "AstroCheck"}
    ELSE IF argv = <<"elongation">> THEN {"ElongationTest"}
    ELSE IF Len(argv) = 2 /\ argv[1] = "seasons" THEN {"SeasonsTest"}
    ELSE IF Len(argv) = 2 /\ argv[1] = "moonphase" THEN {"MoonPhase"}
    ELSE IF Len(argv) = 2 /\ argv[1] = "riseset" THEN {"RiseSet"}
    ELSE IF Len(argv) = 3 /\ argv[1] = "diff" THEN {"Diff"}
    ELSE {}

\* C19: ctest exits with 0 exactly when its arguments select a test and every
\* test selected returned 0; arguments that select none run no test and exit
\* with a non-zero status; AstroCheck runs only after Test_AstroTime has
\* passed.
C19_ExitZeroIffSelectedTestsPass ==
    /\ prog.pc = "exit" =>
          /\ prog.error = 0 <=>
                /\ Selected(prog.argv) # {}
                /\ \A t \in Selected(prog.argv) : prog.returns[t] = 0
          /\ Selected(prog.argv) = {} => prog.ran = <<>> /\ prog.error # 0
          /\ \A i \in DOMAIN prog.ran : prog.ran[i] \in Selected(prog.argv)
    /\ \A i \in DOMAIN prog.ran :
          prog.ran[i] = "AstroCheck" =>
              /\ i = 2 /\ prog.ran[1] = "Test_AstroTime"
              /\ prog.returns["Test_AstroTime"] = 0

\* ctest without arguments has left with a non-zero status after
\* Test_AstroTime failed, AstroCheck not run though it would have passed.
C19_Witness ==
    /\ prog.pc = "exit"
    /\ prog.argv = <<>>
    /\ prog.ran = <<"Test_AstroTime">>
    /\ prog.returns["AstroCheck"] = 0
    /\ prog.error # 0

\* C20: with Q = (fb + fa)/2 - fm, R = (fb - fa)/2 and S = fm the parabola
\* p(x) = Q x^2 + R x + S passes through the three samples: p(-1) = fa,
\* p(0) = fm, p(+1) = fb.
C20_ParabolaThroughSamples ==
    fit.pc = "fitted" =>
        /\ 2 * fit.p.Q = fit.fb + fit.fa - 2 * fit.fm
        /\ 2 * fit.p.R = fit.fb - fit.fa
        /\ fit.p.S = fit.fm
        /\ Eval(fit.p, -1) = fit.fa
        /\ Eval(fit.p, 0) = fit.fm
        /\ Eval(fit.p, 1) = fit.fb

\* A parabola fitted to three different samples that do not lie on a line.
C20_Witness ==
    /\ fit.pc = "fitted"
    /\ fit.p.Q # 0 /\ fit.p.R # 0 /\ fit.p.S # 0
    /\ fit.fa # fit.fm /\ fit.fm # fit.fb /\ fit.fa # fit.fb

\* C21: Solve(p) returns a value exactly when one and only one root of p lies
\* in [-1, +1]: p is a line with a slope whose root is in range, or p has two
\* real roots and one of them is in range.  The value returned is in range
\* and is that root, to the resolution of x.  The roots in range are counted
\* from the signs of p at the ends of the range and the product of the roots,
\* not from the quadratic formula.
\* p(x / XScale) * XScale^2
EvalScaled(p, x) == p.Q * x * x + p.R * x * XScale + p.S * XScale * XScale

OneRootInRange(p) ==
    LET a == Eval(p, -1)
        b == Eval(p, 1)
    IN  IF p.Q = 0 THEN p.R # 0 /\ Abs(p.S) <= Abs(p.R)
        ELSE /\ Discriminant(p) > 0
             /\ \/ (a < 0 /\ b > 0) \/ (a > 0 /\ b < 0)
                \/ ((a = 0) # (b = 0)) /\ Abs(p.S) > Abs(p.Q)

C21_SolveReturnsTheOneRootInRange ==
    fit.pc = "solved" =>
        /\ fit.x.some <=> OneRootInRange(fit.p)
        /\ fit.x.some =>
              /\ InRange(fit.x.x)
              /\ \/ EvalScaled(fit.p, fit.x.x - 1) <= 0 /\ EvalScaled(fit.p, fit.x.x + 1) >= 0
                 \/ EvalScaled(fit.p, fit.x.x - 1) >= 0 /\ EvalScaled(fit.p, fit.x.x + 1) <= 0

\* Solve has run on a parabola with two real roots, both of them in range,
\* and returned nothing.
C21_Witness ==
    /\ fit.pc = "solved"
    /\ fit.p.Q # 0 /\ Discriminant(fit.p) > 0
    /\ Eval(fit.p, -1) * fit.p.Q > 0 /\ Eval(fit.p, 1) * fit.p.Q > 0
    /\ Abs(fit.p.R) < 2 * Abs(fit.p.Q)
    /\ ~fit.x.some

\* C23: when the samples at the two ends have strictly opposite signs, Solve
\* applied to the parabola fitted through fa, fm, fb returns a solution,
\* whatever fm is.
C23_SignChangeGivesSolution ==
    (fit.pc = "solved" /\ fit.fa * fit.fb < 0) => fit.x.some

\* Opposite signs at the ends with the sample in the middle beyond both of
\* them, so that the parabola bends back inside the range: Solve has returned
\* the one root in range.
C23_Witness ==
    /\ fit.pc = "solved" /\ fit.fa * fit.fb < 0
    /\ fit.fm > fit.fa /\ fit.fm > fit.fb
    /\ fit.p.Q # 0
    /\ fit.x.some

\* The parabola through the samples at the ends and the middle of [a, b].
ParabolaOf(fn, a, b) == Parabola(Func(fn, a), Func(fn, Midpoint(a, b)), Func(fn, b))

\* The parabola of the bracket bends (Q # 0) and does not cross the axis: its
\* roots are complex, or it touches the axis in one point (u <= 0).
NoRealCrossing(fn, a, b) ==
    ParabolaOf(fn, a, b).Q # 0 /\ Discriminant(ParabolaOf(fn, a, b)) <= 0

\* C22: when Q # 0 and u = R^2 - 4QS <= 0 the interpolation gives no estimate
\* in that iteration; the search goes on with the half of the bracket,
\* [ta, tm] or [tm, tb], on whose ends the samples fa, fm, fb show the change
\* from negative to not negative (returning the middle of that half when it
\* is within the tolerance), and ends with NotFound when neither half shows it.
C22_NoRealRootNarrowsOnSigns ==
    [][(pc = "run" /\ MayIterate(iter) /\ NoRealCrossing(f, ta, tb)) =>
          LET tm == Midpoint(ta, tb)
              fa == Func(f, ta)
              fm == Func(f, tm)
              fb == Func(f, tb)
          IN  /\ ~Solve(ParabolaOf(f, ta, tb)).some
              /\ IF fa < 0 /\ fm >= 0
                 THEN /\ ta' = ta /\ tb' = tm
                      /\ pc' \in {"run", "found"}
                      /\ pc' = "found" => result' = Midpoint(ta, tm)
                 ELSE IF fm < 0 /\ fb >= 0
                 THEN /\ ta' = tm /\ tb' = tb
                      /\ pc' \in {"run", "found"}
                      /\ pc' = "found" => result' = Midpoint(tm, tb)
                 ELSE /\ pc' = "notfound"
                      /\ ta' = ta /\ tb' = tb /\ result' = result]_vars

\* After one iteration the bracket is the lower half of the window, whose
\* parabola touches the axis in the middle of the window without crossing it.
C22_Witness ==
    /\ iter = 1 /\ pc = "run"
    /\ NoRealCrossing(f, t1, t2)
    /\ ta = t1 /\ tb = Midpoint(t1, t2)

LinesDiffer(cline, jline) ==
    \/ cline.type # jline.type
    \/ cline.type \notin {"o", "v", "s"}
    \/ cline.body # jline.body
    \/ Scanned(cline) < Required(cline.type)
    \/ Scanned(jline) < Required(jline.type)

StructureDiffers(cfile, jfile) ==
    \/ Len(cfile) # Len(jfile)
    \/ \E i \in 1..Min(Len(cfile), Len(jfile)) : LinesDiffer(cfile[i], jfile[i])

\* C25: Diff returns failure, whatever the numbers are, when the files differ
\* in structure: in the number of lines, in the record letter of a pair of
\* lines, by a record letter other than o, v, s, in a body name, or by a line
\* on which fewer than the required number of fields can be scanned.
C25_StructureMismatchFails ==
    (compared.pc = "done" /\ StructureDiffers(compared.cfile, compared.jfile)) =>
        compared.error # 0

\* Diff has failed on two files with the same lines and numbers but for one
\* body name, having read past the first line.
C25_Witness ==
    /\ compared.pc = "done" /\ compared.error # 0
    /\ compared.cfile = CheckFile
    /\ compared.jfile = [CheckFile EXCEPT ![2].body = "Moon"]
    /\ compared.lnum = 2 /\ compared.maxdiff = 0

\* The calls AstroCheck makes at one time of the grid: HelioVector for ten
\* bodies, Equator twice for all of them but the Earth, and GeoVector and
\* Equator twice for the Moon.
CallsPerTime == Len(BodyList) + 2 * (Len(BodyList) - 1) + 3

\* C26: AstroCheck returns 0 exactly when its output file could be opened and
\* every call on the whole grid reported success; it stops at the first call
\* that fails, returning non-zero; its error starts at 1 and becomes 0 only
\* through a CHECK that succeeded.
C26_AstroCheckResult ==
    /\ [](/\ astro.pc = "open" => astro.error = 1
          /\ astro.pc = "done" =>
                /\ astro.error = 0 <=>
                      (astro.opens /\ ~astro.failed
                         /\ astro.calls = MaxCheckTimes * CallsPerTime)
                /\ ~astro.opens => astro.calls = 0
          /\ astro.failed => (astro.pc = "done" /\ astro.error # 0))
    /\ [][/\ (astro.error # 0 /\ astro'.error = 0) =>
                (astro'.calls = astro.calls + 1 /\ ~astro'.failed)
          /\ astro.pc = "done" => UNCHANGED astro]_vars

\* AstroCheck has returned 0 after all the calls of the grid.
C26_Witness ==
    /\ astro.pc = "done" /\ astro.error = 0
    /\ astro.time = MaxCheckTimes /\ astro.calls = MaxCheckTimes * CallsPerTime

\* The relative longitude of the body reaches the target between t - 1 and t.
EventAt(body, target, t) ==
    /\ RelativeLongitudeOffset(body, target * PlanetScale, t - 1) < 0
    /\ RelativeLongitudeOffset(body, target * PlanetScale, t) >= 0

\* C27: in TestPlanetLongitudes the target alternates 0, 180, 0, ...; each
\* search starts at the time of the previous event; every result is strictly
\* later than the time searched from, and it is the first event after that
\* time (none is skipped); so the time advances in every iteration, and the
\* loop ends once the time has reached the end of the test.
C27_LongitudeLoopAdvances ==
    /\ [](/\ planet.pc = "search" =>
                planet.rlon = (IF planet.count % 2 = 1 THEN 0 ELSE 180)
          /\ planet.pc = "geo" =>
                /\ planet.from = planet.time /\ planet.target = planet.rlon
                /\ planet.found > planet.from
                /\ \A t \in (planet.from + 1)..(planet.found - 1 - EventTolerance) :
                      ~EventAt(planet.body, planet.target, t)
                /\ \E t \in (planet.found - EventTolerance)..(planet.found + EventTolerance) :
                      EventAt(planet.body, planet.target, t)
          /\ (planet.pc = "done" /\ planet.error = 0) => planet.time >= planet.stop)
    /\ [][/\ (planet.pc = "geo" /\ planet'.pc = "loop") =>
                /\ planet'.time = planet.found /\ planet'.time > planet.time
                /\ planet'.rlon = 180 - planet.rlon
          /\ planet.pc # "geo" => planet'.time = planet.time /\ planet'.rlon = planet.rlon
          /\ (planet.pc = "loop" /\ planet.time < planet.stop) => planet'.pc = "search"]_vars
    /\ <>(planet.pc = "done")

\* The loop has ended after both kinds of event were found more than once.
C27_Witness ==
    /\ planet.pc = "done" /\ planet.error = 0
    /\ planet.count >= 4 /\ planet.time >= planet.stop
    /\ planet.min_diff < HugeDiff

\* ------------------------------------------------ claims on the run script
\* A build, generation or test stage has run.
StageRan == script.ran # <<>>

\* C28: with sha256sum installed each data file is validated with it, else
\* with md5sum when that is installed, whether or not the file was present at
\* the start, before the script goes on to the next file or to the stages.
\* A failed check
\* deletes the file and ends the script with exit status 1 before any stage.
\* A file goes unvalidated only when neither tool is installed.
C28_DataFilesValidated ==
    \A fl \in 1..Len(DataFiles) :
       LET how == script.checked[fl]
           dealt == script.stage > 0 \/ script.file > fl
       IN  /\ dealt => how \in {"sha256", "md5", "skipped"}
           /\ dealt /\ script.has.sha256sum => how = "sha256"
           /\ dealt /\ ~script.has.sha256sum /\ script.has.md5sum => how = "md5"
           /\ how = "skipped" => ~script.has.sha256sum /\ ~script.has.md5sum
           /\ how = "sha256" => script.has.sha256sum
           /\ how = "md5" => script.has.md5sum
           /\ how = "failed" =>
                 /\ script.pc = "exit" /\ script.exit = 1
                 /\ ~script.present[fl] /\ ~StageRan /\ ~script.passed

\* The star database, present from the start, failed its md5 check after the
\* ephemeris, also present, had passed: the file is gone and no stage ran.
C28_Witness ==
    /\ script.had = <<TRUE, TRUE>> /\ ~script.has.sha256sum /\ script.has.md5sum
    /\ script.checked = <<"md5", "failed">>
    /\ script.pc = "exit" /\ script.exit = 1 /\ ~script.present[2] /\ ~StageRan

\* The stages of a run, in the order of the script.
ExpectedStages(models) ==
    SelectSeq(Stages, LAMBDA name : ~(name = "generate planets" /\ models))

IsPrefix(a, b) == Len(a) <= Len(b) /\ SubSeq(b, 1, Len(a)) = a

UnitTests == {"unit_test_csharp", "unit_test_js", "unit_test_c", "unit_test_python"}

Diffs == {"ctest diff csharp", "ctest diff js", "ctest diff py"}

\* The stages the script has run are the first of the list, in its order,
\* after both data files were dealt with.
StagesInOrder ==
    /\ IsPrefix(script.ran, ExpectedStages(script.models))
    /\ StageRan => \A fl \in 1..Len(DataFiles) :
                      script.present[fl] /\ script.checked[fl] \in {"sha256", "md5", "skipped"}

\* A stage that returned non-zero is the last one run, and the script has
\* ended with a non-zero status.
FailureEnds ==
    /\ StageRan /\ script.status # 0 =>
          /\ script.pc = "exit" /\ script.exit # 0 /\ ~script.passed
          /\ script.failed = script.ran[Len(script.ran)]
    /\ script.failed # "none" => StageRan /\ script.status # 0
    /\ \A i \in 1..Len(script.ran) :
          script.ran[i] \in Diffs =>
             /\ \A u \in UnitTests : \E j \in 1..(i - 1) : script.ran[j] = u
             /\ script.failed \notin UnitTests

\* pass.txt is printed and the exit status is 0 only after every stage ran
\* and none failed.
PassMeansAll ==
    /\ script.passed <=> script.pc = "exit" /\ script.exit = 0
    /\ script.passed =>
          /\ script.ran = ExpectedStages(script.models)
          /\ script.failed = "none" /\ script.status = 0

\* A step runs at most the next stage, and none once the script has ended.
OneStageAtATime ==
    /\ script.pc = "exit" => script'.ran = script.ran
    /\ \/ script'.ran = script.ran
       \/ /\ script.pc = "stage" /\ script.status = 0
          /\ script'.ran = Append(script.ran, Stages[script.stage])

\* C29: the stages run in the order of the script, after the data files; a
\* stage that fails is the last one run and the script ends with a non-zero
\* status, so a diff runs only after the four unit tests passed; pass.txt is
\* printed, with exit status 0, only when every stage succeeded.
C29_StagesInOrderUntilFailure ==
    /\ [](StagesInOrder /\ FailureEnds /\ PassMeansAll)
    /\ [][OneStageAtATime]_vars

\* The second diff failed after the unit tests and the first diff passed:
\* the script ended with status 1 and the third diff did not run.
C29_Witness ==
    /\ script.failed = "ctest diff js" /\ script.pc = "exit" /\ script.exit = 1
    /\ \A u \in UnitTests : \E j \in 1..Len(script.ran) : script.ran[j] = u
    /\ \A j \in 1..Len(script.ran) : script.ran[j] # "ctest diff py"

\* The downloads of one data file, as counted so far.
DownloadBounded(fl) ==
    /\ script.wgets[fl] <= 10 /\ script.curls[fl] <= 1
    /\ script.wgets[fl] > 0 => ~script.had[fl] /\ script.has.wget /\ script.curls[fl] = 0
    /\ script.curls[fl] > 0 => ~script.had[fl] /\ ~script.has.wget /\ script.has.curl
    /\ script.had[fl] => script.wgets[fl] = 0 /\ script.curls[fl] = 0 /\ ~script.got[fl]
    /\ script.slept[fl] = IF script.wgets[fl] > 1 THEN 9 * (script.wgets[fl] - 1) ELSE 0

\* How the downloads of one data file end.
DownloadEnds(fl) ==
    /\ ~script.got[fl] /\ script.wgets[fl] = 10 =>
          script.pc = "exit" /\ script.exit = 1 /\ ~StageRan
    /\ ~script.got[fl] /\ script.wgets[fl] \in 1..9 =>
          script.pc = "wget" /\ script.file = fl /\ script.attempt = script.wgets[fl] + 1
    /\ ~script.got[fl] /\ script.curls[fl] = 1 =>
          script.pc = "exit" /\ script.exit = 1 /\ ~StageRan
    /\ script.got[fl] => script.present[fl] \/ script.checked[fl] = "failed"

\* No download of a file is tried after one succeeded.
StopsAtSuccess ==
    \A fl \in 1..Len(DataFiles) :
       script.got[fl] =>
          script'.wgets[fl] = script.wgets[fl] /\ script'.curls[fl] = script.curls[fl]

\* C30: for a missing data file with wget installed, wget runs at most 10
\* times and not again after a success, 9 seconds are slept before every
\* attempt but the first, and ten failures end the script with status 1;
\* curl runs only without wget, once; a present file is never downloaded.
C30_DownloadRetries ==
    /\ [](\A fl \in 1..Len(DataFiles) : DownloadBounded(fl) /\ DownloadEnds(fl))
    /\ [][StopsAtSuccess]_vars

\* The ephemeris came with the third wget after 18 seconds of sleep; the
\* star database failed ten times, 81 seconds slept, and the script ended.
C30_Witness ==
    /\ script.had = <<FALSE, FALSE>> /\ script.has.wget
    /\ script.got = <<TRUE, FALSE>> /\ script.wgets = <<3, 10>>
    /\ script.slept = <<18, 81>>
    /\ script.pc = "exit" /\ script.exit = 1

====
